---- MODULE Spec2Model ----
(***************************************************************************)
(* A model of scipion-em-eman2: from eman2/convert/convert.py the exchange *)
(* with the e2converter subprocess and its stack-index normalization, the  *)
(* transform converter, the .lst reader, the 2D/3D box readers and writer, *)
(* the CTF reader and the reader of the particle parameters; from          *)
(* eman2/protocols the createOutputStep of the initial model protocol and  *)
(* the step pipelines of three protocols.                                  *)
(*                                                                         *)
(* The components share no state.  Each has its own variables, its own     *)
(* initial condition and its own specification; while one component runs,  *)
(* the variables of the others stay at their idle values.                  *)
(***************************************************************************)
EXTENDS Integers, Sequences, FiniteSets, TLC

VARIABLES
    \* ---- writeSetOfParticles / convertReferences and the converter process
    func,        \* which of the two functions is running
    partSet,     \* the particles, in the order the iteration presents them
    pc,          \* position of the caller
    i,           \* number of particles whose exchange is complete
    fileName,    \* local fileName
    a,           \* local a (the offset)
    proc,        \* the subprocess: "none", "alive", "killed"
    stdinBuf,    \* requests printed to proc.stdin and not yet flushed
    stdinPipe,   \* requests in the pipe, not yet read by the converter
    sent,        \* every request that reached the pipe, in order
    stdoutPipe,  \* acknowledgement lines written and not yet read
    acksRead,    \* acknowledgement lines the caller has read
    links,       \* links created by the hdf branch
    \* ---- geometryFromMatrix / matrixFromGeometry
    gpc, gMatrix, gInverse, gShifts, gAngles, gResult,
    \* ---- iterLstFile
    lpc, lstRecords, lstLines, lstPos, lstYielded,
    \* ---- readCoordinates
    cpc, cFileExists, cJson, cInvertY, cMic, cPos, coordsSet,
    \* ---- coordinates2json / readSetOfCoordinates3D
    tpc, inputCoor, boxSize, jsonFile, coord3DSets, tRaised,
    \* ---- jsonToCtfModel / readCTFModel
    fpc,         \* position: "start", "done"
    fFunc,       \* the function that was called
    ctfJson,     \* what is on disk at the metadata file's name
    ctfModel,    \* the CTFModel object passed in
    fRaised,     \* the exception that left the call, or "none"
    \* ---- getLastParticlesParams / updateSetOfSubTomograms / createOutputStep
    ppc,                     \* position inside createOutputStep
    paramFiles,              \* iteration numbers of the particle_parms files
    particlesParams,         \* the entries of the JSON file that is loaded
    particles,               \* the input set of subtomograms
    lastParticleParamsPath,  \* <<>> or <<iteration of the file chosen>>
    pPos,                    \* entries of particlesParams gone through
    output,                  \* the dictionary being built
    setOfSubTomograms,       \* the items copied into the output set
    outputsDefined,          \* _defineOutputs has been called
    pRaised,                 \* the exception that left the step, or "none"
    \* ---- the step pipelines of the protocols
    protocol,    \* the protocol class that runs
    form,        \* the form parameters and input sizes of Refine2DBispec
    skipctf,     \* self.skipctf
    xpc,         \* position of the run: "insert", "step", ..., "finished", "failed"
    steps,       \* the steps inserted, in order
    stepNo,      \* the position in steps of the step that runs
    events,      \* what the steps have done so far, in order
    xRaised,     \* the exception that ended the run, or "none"
    stepArgs,    \* the arguments each step was inserted with, in order
    stackRead    \* <<>> or <<the file _execEmanProcess had the converter read>>

convVars == <<func, partSet, pc, i, fileName, a, proc, stdinBuf, stdinPipe,
              sent, stdoutPipe, acksRead, links>>
geomVars == <<gpc, gMatrix, gInverse, gShifts, gAngles, gResult>>
lstVars == <<lpc, lstRecords, lstLines, lstPos, lstYielded>>
coordVars == <<cpc, cFileExists, cJson, cInvertY, cMic, cPos, coordsSet>>
tomoVars == <<tpc, inputCoor, boxSize, jsonFile, coord3DSets, tRaised>>
ctfVars == <<fpc, fFunc, ctfJson, ctfModel, fRaised>>
paramsVars == <<ppc, paramFiles, particlesParams, particles,
                lastParticleParamsPath, pPos, output, setOfSubTomograms,
                outputsDefined, pRaised>>
protVars == <<protocol, form, skipctf, xpc, steps, stepNo, events, xRaised,
              stepArgs, stackRead>>
vars == <<convVars, geomVars, lstVars, coordVars, tomoVars, ctfVars, paramsVars,
          protVars>>

\* The variables of the other components, for each component.
convOthers == <<geomVars, lstVars, coordVars, tomoVars, ctfVars, paramsVars,
                 protVars>>
geomOthers == <<convVars, lstVars, coordVars, tomoVars, ctfVars, paramsVars,
                 protVars>>
lstOthers == <<convVars, geomVars, coordVars, tomoVars, ctfVars, paramsVars,
                 protVars>>
coordOthers == <<convVars, geomVars, lstVars, tomoVars, ctfVars, paramsVars,
                 protVars>>
tomoOthers == <<convVars, geomVars, lstVars, coordVars, ctfVars, paramsVars,
                 protVars>>
ctfOthers == <<convVars, geomVars, lstVars, coordVars, tomoVars, paramsVars,
                 protVars>>
paramsOthers == <<convVars, geomVars, lstVars, coordVars, tomoVars, ctfVars,
                 protVars>>
protOthers == <<convVars, geomVars, lstVars, coordVars, tomoVars, ctfVars,
               paramsVars>>

(***************************************************************************)
(* Generic helpers.                                                        *)
(***************************************************************************)
SeqsUpTo(S, n) == UNION {[1..k -> S] : k \in 0..n}

Range(s) == {s[k] : k \in DOMAIN s}

\* ======================================================================
\* 1. writeSetOfParticles, convertReferences and the converter subprocess
\* ======================================================================

\* Bounds of the inputs.
MaxParts == 3
MaxIndex == 2

\* A file name is its base name and its extension (pwutils.getExt reads the
\* extension, the comparison of line 275/423 reads the whole name).
FileNames == {[base |-> "s1", ext |-> "mrcs"],
              [base |-> "s2", ext |-> "mrcs"],
              [base |-> "s3", ext |-> "hdf"]}

\* fileName = "" (lines 243 and 413): a name no particle has.
EmptyName == [base |-> "", ext |-> ""]

\* What getObjDict gives for a particle, as far as the loop reads it.
Particles == [_filename : FileNames, _index : 0..MaxIndex]

Functions == {"writeSetOfParticles", "convertReferences"}

ConvInit ==
    /\ func \in Functions
    /\ partSet \in SeqsUpTo(Particles, MaxParts)
    /\ pc = "start"
    /\ i = 0
    /\ fileName = EmptyName
    /\ a = 0
    /\ proc = "none"
    /\ stdinBuf = <<>>
    /\ stdinPipe = <<>>
    /\ sent = <<>>
    /\ stdoutPipe = 0
    /\ acksRead = 0
    /\ links = {}

ConvIdle ==
    /\ func = "none"
    /\ partSet = <<>>
    /\ pc = "idle"
    /\ i = 0
    /\ fileName = EmptyName
    /\ a = 0
    /\ proc = "none"
    /\ stdinBuf = <<>>
    /\ stdinPipe = <<>>
    /\ sent = <<>>
    /\ stdoutPipe = 0
    /\ acksRead = 0
    /\ links = {}

\* pwutils.getExt(fn)[1:]
getExt(fn) == fn.ext

\* Lines 233-234: the link made for one hdf file.
hdfLink(fn) == [src |-> fn, dst |-> [base |-> fn.base, ext |-> "hdf"]]

\* Lines 275-280 without line 278: a run starting with index 0 keeps the
\* offset of the run before it.
WSP_Offset_NoReset(fn, off, objDict) ==
    IF fn # objDict._filename
    THEN [fileName |-> objDict._filename,
          a |-> IF objDict._index = 0 THEN off ELSE 1]
    ELSE [fileName |-> fn, a |-> off]

\* Lines 275-280 with line 280 for every new file name: the offset is 1
\* whatever the first index is.
WSP_Offset_AlwaysOne(fn, off, objDict) ==
    IF fn # objDict._filename
    THEN [fileName |-> objDict._filename, a |-> 1]
    ELSE [fileName |-> fn, a |-> off]

\* Lines 275-280: the file name and offset after looking at objDict.
WSP_Offset(fn, off, objDict) ==
    IF fn # objDict._filename
    THEN [fileName |-> objDict._filename,
          a |-> IF objDict._index = 0 THEN 0 ELSE 1]
    ELSE [fileName |-> fn, a |-> off]

\* Lines 423-428 with the test of line 425 on the first reference only: the
\* offset of the first file is kept for all the files that follow.
CR_Offset_FirstFileOnly(fn, off, objDict) ==
    IF fn = EmptyName
    THEN [fileName |-> objDict._filename,
          a |-> IF objDict._index = 0 THEN 0 ELSE 1]
    ELSE [fileName |-> objDict._filename, a |-> off]

\* Lines 423-428: the same step in convertReferences.
CR_Offset(fn, off, objDict) ==
    IF fn # objDict._filename
    THEN [fileName |-> objDict._filename,
          a |-> IF objDict._index = 0 THEN 0 ELSE 1]
    ELSE [fileName |-> fn, a |-> off]

\* Lines 281 and 429: objDict['_index'] = int(objDict['_index'] - a)
Request(objDict, off) ==
    [_filename |-> objDict._filename, _index |-> objDict._index - off]

\* Lines 229-245 without the test of line 230: the converter is started
\* whatever the extension of the first item is.
WSP_Begin_AlwaysConverter ==
    /\ func = "writeSetOfParticles" /\ pc = "start"
    /\ IF partSet = <<>>
       THEN /\ pc' = "raised"
            /\ UNCHANGED <<proc, links>>
       ELSE /\ proc' = "alive"
            /\ pc' = "loop"
            /\ UNCHANGED links
    /\ UNCHANGED <<func, partSet, i, fileName, a, stdinBuf, stdinPipe, sent,
                   stdoutPipe, acksRead>>
    /\ UNCHANGED convOthers

\* Lines 229-245: the extension of the first item decides between linking
\* and converting.  getFirstItem() of an empty set is None, and
\* None.getFileName() raises.
WSP_Begin ==
    /\ func = "writeSetOfParticles" /\ pc = "start"
    /\ IF partSet = <<>>
       THEN /\ pc' = "raised"
            /\ UNCHANGED <<proc, links>>
       ELSE IF getExt(partSet[1]._filename) = "hdf"
       THEN /\ links' = {hdfLink(p._filename) : p \in Range(partSet)}
            /\ pc' = "done"
            /\ UNCHANGED proc
       ELSE /\ proc' = "alive"
            /\ pc' = "loop"
            /\ UNCHANGED links
    /\ UNCHANGED <<func, partSet, i, fileName, a, stdinBuf, stdinPipe, sent,
                   stdoutPipe, acksRead>>
    /\ UNCHANGED convOthers

\* Lines 247-283 without line 284: the request is written and the loop goes
\* on without reading the acknowledgement.
WSP_Write_NoRead ==
    /\ func = "writeSetOfParticles" /\ pc = "loop" /\ i < Len(partSet)
    /\ LET objDict == partSet[i + 1]
           st == WSP_Offset(fileName, a, objDict)
           req == Request(objDict, st.a)
       IN /\ fileName' = st.fileName
          /\ a' = st.a
          /\ stdinPipe' = Append(stdinPipe, req)
          /\ sent' = Append(sent, req)
    /\ i' = i + 1
    /\ UNCHANGED <<func, partSet, pc, proc, stdinBuf, stdoutPipe, acksRead, links>>
    /\ UNCHANGED convOthers

\* Lines 247-283: one pass of the loop body up to the print, which flushes.
WSP_Write ==
    /\ func = "writeSetOfParticles" /\ pc = "loop" /\ i < Len(partSet)
    /\ LET objDict == partSet[i + 1]
           st == WSP_Offset(fileName, a, objDict)
           req == Request(objDict, st.a)
       IN /\ fileName' = st.fileName
          /\ a' = st.a
          /\ stdinPipe' = Append(stdinPipe, req)
          /\ sent' = Append(sent, req)
    /\ pc' = "read"
    /\ UNCHANGED <<func, partSet, i, proc, stdinBuf, stdoutPipe, acksRead, links>>
    /\ UNCHANGED convOthers

\* Line 284 with a read that returns at once when no line is there.
WSP_ReadLine_NoWait ==
    /\ func = "writeSetOfParticles" /\ pc = "read"
    /\ stdoutPipe' = IF stdoutPipe > 0 THEN stdoutPipe - 1 ELSE 0
    /\ acksRead' = IF stdoutPipe > 0 THEN acksRead + 1 ELSE acksRead
    /\ i' = i + 1
    /\ pc' = "loop"
    /\ UNCHANGED <<func, partSet, fileName, a, proc, stdinBuf, stdinPipe, sent, links>>
    /\ UNCHANGED convOthers

\* Line 284: proc.stdout.readline() blocks until a line is there.
WSP_ReadLine ==
    /\ func = "writeSetOfParticles" /\ pc = "read"
    /\ stdoutPipe > 0
    /\ stdoutPipe' = stdoutPipe - 1
    /\ acksRead' = acksRead + 1
    /\ i' = i + 1
    /\ pc' = "loop"
    /\ UNCHANGED <<func, partSet, fileName, a, proc, stdinBuf, stdinPipe, sent, links>>
    /\ UNCHANGED convOthers

\* Line 285: proc.kill() after the loop.
WSP_Kill ==
    /\ func = "writeSetOfParticles" /\ pc = "loop" /\ i = Len(partSet)
    /\ proc' = "killed"
    /\ pc' = "done"
    /\ UNCHANGED <<func, partSet, i, fileName, a, stdinBuf, stdinPipe, sent,
                   stdoutPipe, acksRead, links>>
    /\ UNCHANGED convOthers

\* Lines 413-415.
CR_Begin ==
    /\ func = "convertReferences" /\ pc = "start"
    /\ proc' = "alive"
    /\ pc' = "loop"
    /\ UNCHANGED <<func, partSet, i, fileName, a, stdinBuf, stdinPipe, sent,
                   stdoutPipe, acksRead, links>>
    /\ UNCHANGED convOthers

\* Lines 417-432: the loop body up to the print (no flush yet).
CR_Print ==
    /\ func = "convertReferences" /\ pc = "loop" /\ i < Len(partSet)
    /\ LET objDict == partSet[i + 1]
           st == CR_Offset(fileName, a, objDict)
           req == Request(objDict, st.a)
       IN /\ fileName' = st.fileName
          /\ a' = st.a
          /\ stdinBuf' = Append(stdinBuf, req)
    /\ pc' = "flush"
    /\ UNCHANGED <<func, partSet, i, proc, stdinPipe, sent, stdoutPipe, acksRead, links>>
    /\ UNCHANGED convOthers

\* Line 433: proc.stdin.flush()
CR_Flush ==
    /\ func = "convertReferences" /\ pc = "flush"
    /\ stdinPipe' = stdinPipe \o stdinBuf
    /\ sent' = sent \o stdinBuf
    /\ stdinBuf' = <<>>
    /\ pc' = "read"
    /\ UNCHANGED <<func, partSet, i, fileName, a, proc, stdoutPipe, acksRead, links>>
    /\ UNCHANGED convOthers

\* Line 434: proc.stdout.readline()
CR_ReadLine ==
    /\ func = "convertReferences" /\ pc = "read"
    /\ stdoutPipe > 0
    /\ stdoutPipe' = stdoutPipe - 1
    /\ acksRead' = acksRead + 1
    /\ i' = i + 1
    /\ pc' = "loop"
    /\ UNCHANGED <<func, partSet, fileName, a, proc, stdinBuf, stdinPipe, sent, links>>
    /\ UNCHANGED convOthers

\* Line 435: proc.kill()
CR_Kill ==
    /\ func = "convertReferences" /\ pc = "loop" /\ i = Len(partSet)
    /\ proc' = "killed"
    /\ pc' = "done"
    /\ UNCHANGED <<func, partSet, i, fileName, a, stdinBuf, stdinPipe, sent,
                   stdoutPipe, acksRead, links>>
    /\ UNCHANGED convOthers

\* The converter process (e2converter.py, started by Plugin.createEmanProcess
\* with args='write'): it reads one request line and answers with one line.
Converter_Ack ==
    /\ proc = "alive"
    /\ stdinPipe # <<>>
    /\ stdinPipe' = Tail(stdinPipe)
    /\ stdoutPipe' = stdoutPipe + 1
    /\ UNCHANGED <<func, partSet, pc, i, fileName, a, proc, stdinBuf, sent,
                   acksRead, links>>
    /\ UNCHANGED convOthers

Next ==
    \/ WSP_Begin
    \/ WSP_Write
    \/ WSP_ReadLine
    \/ WSP_Kill
    \/ CR_Begin
    \/ CR_Print
    \/ CR_Flush
    \/ CR_ReadLine
    \/ CR_Kill
    \/ Converter_Ack
\* ======================================================================
\* 2. geometryFromMatrix and matrixFromGeometry
\* ======================================================================
\* Angles are exact multiples of a quarter turn: a radian value is held as
\* its number of quarter turns (pi/2), a degree value as an integer.
\* Matrices are 4x4 tuples of rows with integer entries.

MaxShift == 1

Identity4 == <<<<1, 0, 0, 0>>, <<0, 1, 0, 0>>, <<0, 0, 1, 0>>, <<0, 0, 0, 1>>>>

Det3(R) ==
      R[1][1] * (R[2][2] * R[3][3] - R[2][3] * R[3][2])
    - R[1][2] * (R[2][1] * R[3][3] - R[2][3] * R[3][1])
    + R[1][3] * (R[2][1] * R[3][2] - R[2][2] * R[3][1])

\* Rows of a signed permutation: one entry +-1, the others 0.
UnitRows == {r \in [1..3 -> {-1, 0, 1}] : r[1] * r[1] + r[2] * r[2] + r[3] * r[3] = 1}

Dot3(u, v) == u[1] * v[1] + u[2] * v[2] + u[3] * v[3]

\* The orthonormal rotation blocks with integer entries: the 24 rotations
\* by multiples of 90 degrees.
Rotations ==
    {R \in [1..3 -> UnitRows] :
        /\ Dot3(R[1], R[2]) = 0 /\ Dot3(R[1], R[3]) = 0 /\ Dot3(R[2], R[3]) = 0
        /\ Det3(R) = 1}

Shifts == [1..3 -> (0 - MaxShift)..MaxShift]

\* The rigid transform with rotation block R and translation column t.
Rigid(R, t) ==
    <<<<R[1][1], R[1][2], R[1][3], t[1]>>,
      <<R[2][1], R[2][2], R[2][3], t[2]>>,
      <<R[3][1], R[3][2], R[3][3], t[3]>>,
      <<0, 0, 0, 1>>>>

RigidTransforms == {Rigid(R, t) : R \in Rotations, t \in Shifts}

\* math.sin and math.cos of q quarter turns.
SinQ(q) == CASE q % 4 = 0 -> 0 [] q % 4 = 1 -> 1 [] q % 4 = 2 -> 0 [] q % 4 = 3 -> -1
CosQ(q) == CASE q % 4 = 0 -> 1 [] q % 4 = 1 -> 0 [] q % 4 = 2 -> -1 [] q % 4 = 3 -> 0

\* math.atan2(y, x) in quarter turns, for a point on an axis or the origin.
Atan2Q(y, x) ==
    CASE y = 0 /\ x >= 0 -> 0
      [] y > 0 /\ x = 0 -> 1
      [] y = 0 /\ x < 0 -> 2
      [] y < 0 /\ x = 0 -> -1

\* math.sqrt of a perfect square.
Sqrt(s) == CHOOSE r \in 0..s : r * r = s

\* numpy.rad2deg and numpy.deg2rad on a triple of angles.
rad2deg(q) == [n \in 1..3 |-> 90 * q[n]]
deg2rad(d) == [n \in 1..3 |-> d[n] \div 90]

Neg3(v) == [n \in 1..3 |-> 0 - v[n]]

\* translation_from_matrix: matrix[:3, 3]
translation_from_matrix(M) == <<M[1][4], M[2][4], M[3][4]>>

\* euler_from_matrix(matrix, axes='szyz'): _AXES2TUPLE['szyz'] is
\* (firstaxis 2, parity 1, repetition 1, frame 0), so i, j, k are the
\* axes z, y, x: rows and columns 3, 2, 1 here.
euler_from_matrix(M) ==
    LET ii == 3
        jj == 2
        kk == 1
        sy == Sqrt(M[ii][jj] * M[ii][jj] + M[ii][kk] * M[ii][kk])
        ax == IF sy > 0 THEN Atan2Q(M[ii][jj], M[ii][kk])
                        ELSE Atan2Q(0 - M[jj][kk], M[jj][jj])
        ay == Atan2Q(sy, M[ii][ii])
        az == IF sy > 0 THEN Atan2Q(M[jj][ii], 0 - M[kk][ii]) ELSE 0
    IN  <<0 - ax, 0 - ay, 0 - az>>

\* euler_matrix(ai, aj, ak, 'szyz'): parity 1 negates the angles, repetition 1
\* fills the matrix of a repeated-axis sequence.
euler_matrix(ai0, aj0, ak0) ==
    LET ai == 0 - ai0
        aj == 0 - aj0
        ak == 0 - ak0
        si == SinQ(ai)
        sj == SinQ(aj)
        sk == SinQ(ak)
        ci == CosQ(ai)
        cj == CosQ(aj)
        ck == CosQ(ak)
        cc == ci * ck
        cs == ci * sk
        sc == si * ck
        ss == si * sk
        \* entry [row][column] with i = 3, j = 2, k = 1
        Mkk == cj * cc - ss
        Mkj == cj * sc + cs
        Mki == 0 - sj * ck
        Mjk == 0 - cj * cs - sc
        Mjj == 0 - cj * ss + cc
        Mji == sj * sk
        Mik == sj * ci
        Mij == sj * si
        Mii == cj
    IN  <<<<Mkk, Mkj, Mki, 0>>,
          <<Mjk, Mjj, Mji, 0>>,
          <<Mik, Mij, Mii, 0>>,
          <<0, 0, 0, 1>>>>

\* The adjugate of the rotation block: entry [r][c] is the cofactor of [c][r].
Minor(M, r, c) ==
    LET rs == CHOOSE p \in (1..3) \X (1..3) :
                  p[1] < p[2] /\ p[1] # r /\ p[2] # r
        cs == CHOOSE p \in (1..3) \X (1..3) :
                  p[1] < p[2] /\ p[1] # c /\ p[2] # c
    IN  M[rs[1]][cs[1]] * M[rs[2]][cs[2]] - M[rs[1]][cs[2]] * M[rs[2]][cs[1]]

Cofactor(M, r, c) == (IF (r + c) % 2 = 0 THEN 1 ELSE -1) * Minor(M, r, c)

\* numpy.linalg.inv of a matrix whose last row is [0, 0, 0, 1] and whose
\* upper-left block has determinant +-1: the block is inverted by cofactors
\* and the translation column becomes -inv(block) * column.
inv(M) ==
    LET d == Det3(M)
        B == [r \in 1..3 |-> [c \in 1..3 |-> Cofactor(M, c, r) \div d]]
        t == translation_from_matrix(M)
        u == [r \in 1..3 |-> 0 - Dot3(B[r], t)]
    IN  Rigid(B, u)

\* M[:3, 3] = column
SetTranslation(M, col) ==
    [r \in 1..4 |-> IF r = 4 THEN M[4]
                    ELSE <<M[r][1], M[r][2], M[r][3], col[r]>>]

\* Lines 329-338 with the shifts of the inverse case not negated.
geometryFromMatrix_ShiftsNotNegated(matrix, inverseTransform) ==
    LET m == IF inverseTransform THEN inv(matrix) ELSE matrix
    IN  [shifts |-> translation_from_matrix(m),
         angles |-> Neg3(rad2deg(euler_from_matrix(m)))]

\* Lines 329-338.
geometryFromMatrix(matrix, inverseTransform) ==
    LET m == IF inverseTransform THEN inv(matrix) ELSE matrix
        shifts == IF inverseTransform THEN Neg3(translation_from_matrix(m))
                                      ELSE translation_from_matrix(m)
        angles == Neg3(rad2deg(euler_from_matrix(m)))
    IN  [shifts |-> shifts, angles |-> angles]

\* Lines 341-357 with radAngles = deg2rad(angles), the sign of line 347 lost.
matrixFromGeometry_NoNegation(shifts, angles, inverseTransform) ==
    LET radAngles == deg2rad(angles)
        M == euler_matrix(radAngles[1], radAngles[2], radAngles[3])
    IN  IF inverseTransform
        THEN inv(SetTranslation(M, Neg3(shifts)))
        ELSE SetTranslation(M, shifts)

\* Lines 341-357.
matrixFromGeometry(shifts, angles, inverseTransform) ==
    LET radAngles == Neg3(deg2rad(angles))
        M == euler_matrix(radAngles[1], radAngles[2], radAngles[3])
    IN  IF inverseTransform
        THEN inv(SetTranslation(M, Neg3(shifts)))
        ELSE SetTranslation(M, shifts)

NoVector == <<0, 0, 0>>

GeomInit ==
    /\ gpc = "start"
    /\ gMatrix \in RigidTransforms
    /\ gInverse \in BOOLEAN
    /\ gShifts = NoVector
    /\ gAngles = NoVector
    /\ gResult = Identity4

GeomIdle ==
    /\ gpc = "idle"
    /\ gMatrix = Identity4
    /\ gInverse = FALSE
    /\ gShifts = NoVector
    /\ gAngles = NoVector
    /\ gResult = Identity4

\* A caller takes the geometry of a transform (alignmentToRow, line 373) ...
Geom_FromMatrix ==
    /\ gpc = "start"
    /\ LET g == geometryFromMatrix(gMatrix, gInverse)
       IN /\ gShifts' = g.shifts
          /\ gAngles' = g.angles
    /\ gpc' = "geometry"
    /\ UNCHANGED <<gMatrix, gInverse, gResult>>
    /\ UNCHANGED geomOthers

\* ... and builds the transform back from it (rowToAlignment, line 396).
Geom_ToMatrix ==
    /\ gpc = "geometry"
    /\ gResult' = matrixFromGeometry(gShifts, gAngles, gInverse)
    /\ gpc' = "done"
    /\ UNCHANGED <<gMatrix, gInverse, gShifts, gAngles>>
    /\ UNCHANGED geomOthers

NextGeometry ==
    \/ Geom_FromMatrix
    \/ Geom_ToMatrix
\* ======================================================================
\* 3. iterLstFile
\* ======================================================================
\* A line of the file is a sequence of characters.  The file is written by
\* EMAN2 from records: a comment, or a data record "<N> <path>" with an
\* optional tail; lstRecords keeps what was written, lstLines is the text.

MaxLines == 3

DigitChars == <<"0", "1", "2", "3", "4", "5", "6", "7", "8", "9">>

RECURSIVE Digits(_)
\* The decimal text of a natural number.
Digits(n) ==
    IF n < 10 THEN <<DigitChars[n + 1]>>
    ELSE Digits(n \div 10) \o <<DigitChars[(n % 10) + 1]>>

\* The records a file is made of.
LstRecordSet ==
    {[kind |-> "comment", n |-> 0, path |-> <<>>, tail |-> <<"#", "L", "S", "X">>],
     [kind |-> "data", n |-> 0, path |-> <<"p", ".", "h">>, tail |-> <<>>],
     [kind |-> "data", n |-> 9, path |-> <<"q", ".", "h">>, tail |-> <<"\t", "c">>],
     [kind |-> "data", n |-> 10, path |-> <<"p", ".", "h">>, tail |-> <<" ", "#", "c">>],
     [kind |-> "data", n |-> 21, path |-> <<"q", "#", "h">>, tail |-> <<>>],
     [kind |-> "data", n |-> 107, path |-> <<"q", ".", "h">>, tail |-> <<" ">>]}

\* The text of one record, with its newline.
LstLine(r) ==
    IF r.kind = "comment" THEN r.tail \o <<"\n">>
    ELSE Digits(r.n) \o <<"\t">> \o r.path \o r.tail \o <<"\n">>

Whitespace == {" ", "\t", "\n"}

\* '#' in line, read as line.startswith('#').
StartsWithHash(line) == line # <<>> /\ line[1] = "#"

\* Line 322: '#' in line
HasHash(line) == \E k \in DOMAIN line : line[k] = "#"

RECURSIVE SplitFrom(_, _, _, _)
\* str.split(): the maximal runs of non-whitespace characters, in order.
\* k is the position read, cur the token being read, acc the tokens so far.
SplitFrom(line, k, cur, acc) ==
    IF k > Len(line)
    THEN IF cur = <<>> THEN acc ELSE Append(acc, cur)
    ELSE IF line[k] \in Whitespace
    THEN SplitFrom(line, k + 1, <<>>, IF cur = <<>> THEN acc ELSE Append(acc, cur))
    ELSE SplitFrom(line, k + 1, Append(cur, line[k]), acc)

split(line) == SplitFrom(line, 1, <<>>, <<>>)

DigitValue(c) == (CHOOSE d \in 1..10 : DigitChars[d] = c) - 1

RECURSIVE int(_)
\* int(text) of a string of decimal digits.
int(text) ==
    IF Len(text) = 1 THEN DigitValue(text[1])
    ELSE 10 * int(SubSeq(text, 1, Len(text) - 1)) + DigitValue(text[Len(text)])

\* Line 324: the pair yielded for a data line.
LstEntry(line) ==
    [index |-> int(split(line)[1]) + 1, filename |-> split(line)[2]]

LstInit ==
    /\ lpc = "start"
    /\ lstRecords \in SeqsUpTo(LstRecordSet, MaxLines)
    /\ lstLines = [k \in DOMAIN lstRecords |-> LstLine(lstRecords[k])]
    /\ lstPos = 0
    /\ lstYielded = <<>>

LstIdle ==
    /\ lpc = "idle"
    /\ lstRecords = <<>>
    /\ lstLines = <<>>
    /\ lstPos = 0
    /\ lstYielded = <<>>

\* Line 320: f = open(filename), at the first next() of the generator.
Lst_Open ==
    /\ lpc = "start"
    /\ lpc' = "scan"
    /\ UNCHANGED <<lstRecords, lstLines, lstPos, lstYielded>>
    /\ UNCHANGED lstOthers

\* Lines 321-322: a line with a '#' is passed over.
Lst_Skip ==
    /\ lpc = "scan" /\ lstPos < Len(lstLines)
    /\ HasHash(lstLines[lstPos + 1])
    /\ lstPos' = lstPos + 1
    /\ UNCHANGED <<lpc, lstRecords, lstLines, lstYielded>>
    /\ UNCHANGED lstOthers

\* Lines 321-325: a line without '#' is decomposed and yielded.
Lst_Yield ==
    /\ lpc = "scan" /\ lstPos < Len(lstLines)
    /\ ~HasHash(lstLines[lstPos + 1])
    /\ lstYielded' = Append(lstYielded, LstEntry(lstLines[lstPos + 1]))
    /\ lstPos' = lstPos + 1
    /\ UNCHANGED <<lpc, lstRecords, lstLines>>
    /\ UNCHANGED lstOthers

\* Line 326: f.close() when the lines are exhausted.
Lst_Close ==
    /\ lpc = "scan" /\ lstPos = Len(lstLines)
    /\ lpc' = "done"
    /\ UNCHANGED <<lstRecords, lstLines, lstPos, lstYielded>>
    /\ UNCHANGED lstOthers

NextLst ==
    \/ Lst_Open
    \/ Lst_Skip
    \/ Lst_Yield
    \/ Lst_Close
\* ======================================================================
\* 4. readCoordinates
\* ======================================================================
\* A JSON object is a function from its keys; a box is a tuple of numbers.

MaxBoxes == 3

Boxes2D == {<<10, 20>>, <<10, 70>>, <<30, 20>>, <<30, 20, 5>>, <<45, 100, 5, 7>>}

Micrographs == {[name |-> "mic1", yDim |-> 100], [name |-> "mic2", yDim |-> 128]}

BoxFiles ==
    {[boxes |-> b] : b \in SeqsUpTo(Boxes2D, MaxBoxes)} \cup {[version |-> 1]}

\* Lines 165-172 with the subtraction the other way round.
readCoordinate_Swapped(box, mic, invertY) ==
    [x |-> box[1],
     y |-> IF invertY THEN box[2] - mic.yDim ELSE box[2],
     mic |-> mic.name]

\* Lines 165-172: the coordinate made from one box.
readCoordinate(box, mic, invertY) ==
    [x |-> box[1],
     y |-> IF invertY THEN mic.yDim - box[2] ELSE box[2],
     mic |-> mic.name]

CoordInit ==
    /\ cpc = "start"
    /\ cFileExists \in BOOLEAN
    /\ cJson \in BoxFiles
    /\ cInvertY \in BOOLEAN
    /\ cMic \in Micrographs
    /\ cPos = 0
    /\ coordsSet = <<>>

CoordIdle ==
    /\ cpc = "idle"
    /\ cFileExists = FALSE
    /\ cJson = [version |-> 1]
    /\ cInvertY = FALSE
    /\ cMic = [name |-> "mic1", yDim |-> 100]
    /\ cPos = 0
    /\ coordsSet = <<>>

\* Lines 158-162: the file is read if it exists, the boxes if there are any.
Coord_Load ==
    /\ cpc = "start"
    /\ cpc' = IF cFileExists /\ "boxes" \in DOMAIN cJson THEN "loop" ELSE "done"
    /\ UNCHANGED <<cFileExists, cJson, cInvertY, cMic, cPos, coordsSet>>
    /\ UNCHANGED coordOthers

\* Lines 164-173: one box.
Coord_Append ==
    /\ cpc = "loop" /\ cPos < Len(cJson.boxes)
    /\ coordsSet' = Append(coordsSet, readCoordinate(cJson.boxes[cPos + 1], cMic, cInvertY))
    /\ cPos' = cPos + 1
    /\ UNCHANGED <<cpc, cFileExists, cJson, cInvertY, cMic>>
    /\ UNCHANGED coordOthers

\* Line 164: the boxes are exhausted.
Coord_End ==
    /\ cpc = "loop" /\ cPos = Len(cJson.boxes)
    /\ cpc' = "done"
    /\ UNCHANGED <<cFileExists, cJson, cInvertY, cMic, cPos, coordsSet>>
    /\ UNCHANGED coordOthers

NextCoord ==
    \/ Coord_Load
    \/ Coord_Append
    \/ Coord_End
\* ======================================================================
\* 5. coordinates2json and readSetOfCoordinates3D
\* ======================================================================
\* The JSON file is either written by coordinates2json from a set of 3D
\* coordinates, or left by the boxer (e2spt_boxer.py) with boxes of several
\* classes.  A float is held as its JSON text.

MaxCoords == 2

CoordValues == {1, 2}

Coordinates3D == [x : CoordValues, y : CoordValues, z : CoordValues]

BoxSizes == {32, 64}

ClassIds == {0, 1}

\* The boxes the boxer writes: [x, y, z, label, score, classId].
Boxes3D ==
    {<<c.x, c.y, c.z, "manual", "0.0", k>> : c \in Coordinates3D, k \in ClassIds}

BoxerFiles ==
    {[boxes_3d |-> b,
      class_list |-> [k \in {"0", "1"} |-> [boxsize |-> 32, name |-> "particles"]]] :
        b \in SeqsUpTo(Boxes3D, MaxCoords)}
    \cup {[class_list |-> [k \in {"0"} |-> [boxsize |-> 32, name |-> "particles"]]]}

NoJson == [nofile |-> TRUE]

\* The coordinate sets registered by class: coord3DSetDict.
EmptySets == [k \in ClassIds |-> <<>>]

\* Line 454 with x and y exchanged.
coordinates2json_Swapped(inputCoorSet, size) ==
    [boxes_3d |-> [k \in DOMAIN inputCoorSet |->
                      <<inputCoorSet[k].y, inputCoorSet[k].x, inputCoorSet[k].z,
                        "manual", "0.0", 0>>],
     class_list |-> [c \in {"0"} |-> [boxsize |-> size, name |-> "particles_00"]]]

\* Lines 451-460: the object written to pathInputCoor.
coordinates2json(inputCoorSet, size) ==
    [boxes_3d |-> [k \in DOMAIN inputCoorSet |->
                      <<inputCoorSet[k].x, inputCoorSet[k].y, inputCoorSet[k].z,
                        "manual", "0.0", 0>>],
     class_list |-> [c \in {"0"} |-> [boxsize |-> size, name |-> "particles_00"]]]

\* Lines 175-182, and the callback of line 152 applied to the result.
readCoordinate3D(box, inputTomo, updateItem) ==
    [x |-> box[1], y |-> box[2], z |-> box[3], volume |-> inputTomo,
     updated |-> updateItem]

RECURSIVE AppendBoxes3D(_, _, _, _)
\* Lines 144-154: every box goes to the set registered under its classId;
\* a classId that is not registered is a KeyError at line 146.
AppendBoxes3D(boxes, sets, inputTomo, updateItem) ==
    IF boxes = <<>> THEN [raised |-> "none", sets |-> sets]
    ELSE LET box == Head(boxes)
             classKey == box[6]
         IN  IF classKey \notin DOMAIN sets
             THEN [raised |-> "KeyError", sets |-> sets]
             ELSE AppendBoxes3D(Tail(boxes),
                      [sets EXCEPT ![classKey] =
                          Append(@, readCoordinate3D(box, inputTomo, updateItem))],
                      inputTomo, updateItem)

\* The methods of the object json.load returns (line 52), a dict of the
\* Python 3 this module is written for (print(..., file=, flush=) at line
\* 283): has_key is not one of them.
DictMethods == {"get", "items", "keys", "values", "pop", "update", "setdefault"}

\* Lines 140-154.  Line 141 calls jsonBoxDict.has_key.
readSetOfCoordinates3D(jsonBoxDict, coord3DSetDict, inputTomo, updateItem) ==
    IF "has_key" \notin DictMethods
    THEN [raised |-> "AttributeError", sets |-> coord3DSetDict]
    ELSE IF "boxes_3d" \in DOMAIN jsonBoxDict
    THEN AppendBoxes3D(jsonBoxDict.boxes_3d, coord3DSetDict, inputTomo, updateItem)
    ELSE [raised |-> "none", sets |-> coord3DSetDict]

TomoInit ==
    /\ \/ /\ tpc = "start"
          /\ inputCoor \in SeqsUpTo(Coordinates3D, MaxCoords)
          /\ boxSize \in BoxSizes
          /\ jsonFile = NoJson
       \/ /\ tpc = "boxed"
          /\ inputCoor = <<>>
          /\ boxSize = 32
          /\ jsonFile \in BoxerFiles
    /\ coord3DSets = EmptySets
    /\ tRaised = "none"

TomoIdle ==
    /\ tpc = "idle"
    /\ inputCoor = <<>>
    /\ boxSize = 32
    /\ jsonFile = NoJson
    /\ coord3DSets = EmptySets
    /\ tRaised = "none"

\* Lines 451-460: coordinates2json(pathInputCoor, inputCoor).
Tomo_Coordinates2json ==
    /\ tpc = "start"
    /\ jsonFile' = coordinates2json(inputCoor, boxSize)
    /\ tpc' = "written"
    /\ UNCHANGED <<inputCoor, boxSize, coord3DSets, tRaised>>
    /\ UNCHANGED tomoOthers

\* loadJson of the file, then readSetOfCoordinates3D on the result, with or
\* without an updateItem callback.
Tomo_ReadSetOfCoordinates3D ==
    /\ tpc \in {"written", "boxed"}
    /\ \E updateItem \in BOOLEAN :
          LET r == readSetOfCoordinates3D(jsonFile, coord3DSets, "tomo", updateItem)
          IN /\ coord3DSets' = r.sets
             /\ tRaised' = r.raised
    /\ tpc' = IF tpc = "written" THEN "readback" ELSE "read"
    /\ UNCHANGED <<inputCoor, boxSize, jsonFile>>
    /\ UNCHANGED tomoOthers

NextTomo ==
    \/ Tomo_Coordinates2json
    \/ Tomo_ReadSetOfCoordinates3D
\* ======================================================================
\* 6. jsonToCtfModel and readCTFModel
\* ======================================================================
\* The numbers of the JSON record are held in tenths (defocus 10 is 1.0,
\* dfdiff 2 is 0.2), except ampcont, a whole percentage, and dfang, whole
\* degrees.  Defocus values of the model are whole Angstroms.  An angle in
\* radians is held in units of pi/6.  A field of the model is <<>> while it
\* is None, <<v>> once it is set.

\* A CTF record of the JSON file, an empty one, or null.
CtfRecords ==
    [defocus : {10, 25}, dfang : {0, 45, 200}, dfdiff : {2, -2, 20},
     ampcont : {-150, -100, 0, 100, 150}]

EmptyRecord == [empty |-> TRUE]
Null == [null |-> TRUE]

KeyPosValues == CtfRecords \cup {EmptyRecord, Null}

\* The JSON objects: 'ctf_frame' is a list whose second element is the
\* record, 'ctf' a list whose first element is the record.
CtfFiles ==
    {[ctf_frame |-> <<512, r>>] : r \in KeyPosValues}
    \cup {[ctf |-> <<r>>] : r \in KeyPosValues}
    \cup {[ctf_frame |-> <<512, r>>, ctf_im2d |-> "image"] : r \in KeyPosValues}
    \cup {[ctf_frame |-> <<512, r>>, ctf |-> <<q>>] :
             r \in {EmptyRecord, Null}, q \in CtfRecords}
    \cup {[quality |-> 5], [quality |-> 5, ctf_im2d |-> "image"]}

\* What else can be at the file's name: nothing, or text that is not JSON.
MissingFile == [missing |-> TRUE]
MalformedFile == [malformed |-> TRUE]

CtfDisk == CtfFiles \cup {MissingFile, MalformedFile}

\* Lines 49-54: open() raises for a missing file, json.load for text that
\* is not JSON.
loadJson(file) ==
    IF file = MissingFile THEN [raised |-> "IOError", jsonDict |-> Null]
    ELSE IF file = MalformedFile THEN [raised |-> "ValueError", jsonDict |-> Null]
    ELSE [raised |-> "none", jsonDict |-> file]

\* pwutils.exists(mdFn), line 109.
exists(file) == file # MissingFile

\* A CTFModel as constructed: no field set.
NewCTFModel ==
    [defocusU |-> <<>>, defocusV |-> <<>>, defocusAngle |-> <<>>,
     phaseShift |-> <<>>, psdFile |-> <<>>]

\* Truth value of keyPos at line 75: None and {} are false.
Truthy(keyPos) == keyPos \in CtfRecords

\* numpy.arcsin of x/100, in units of pi/6.
Arcsin(x) ==
    CASE x = -100 -> -3 [] x = -50 -> -1 [] x = 0 -> 0 [] x = 50 -> 1 [] x = 100 -> 3

Pi == 6

\* numpy.rad2deg of an angle in units of pi/6.
rad2degScalar(r) == 30 * r

\* The branch selection with the lower boundary taken into the first branch.
PhaseShiftBranch_Closed(ampcont) ==
    IF -100 <= ampcont /\ ampcont <= 100 THEN "first"
    ELSE IF ampcont > 100 THEN "second"
    ELSE "third"

\* The branch of lines 440-445 that ampcont selects.
PhaseShiftBranch(ampcont) ==
    IF -100 < ampcont /\ ampcont <= 100 THEN "first"
    ELSE IF ampcont > 100 THEN "second"
    ELSE "third"

\* Lines 438-448; ampcont / 100.0 is kept in hundredths.
calculatePhaseShift(ampcont) ==
    LET PhaseShift ==
            CASE PhaseShiftBranch(ampcont) = "first" -> Arcsin(ampcont)
              [] PhaseShiftBranch(ampcont) = "second" -> Pi - Arcsin(200 - ampcont)
              [] PhaseShiftBranch(ampcont) = "third" -> (0 - Pi) - Arcsin(-200 - ampcont)
    IN  rad2degScalar(PhaseShift)

\* Lines 94-97.
setWrongDefocus(m) ==
    [m EXCEPT !.defocusU = <<-999>>, !.defocusV = <<-1>>, !.defocusAngle = <<-999>>]

\* CTFModel.setStandardDefocus (line 84): the three values are set and then
\* standardized: U and V exchanged and the angle turned by 90 when V > U,
\* then the angle brought back by 180 when it is >= 180 or raised by 180
\* when it is < 0.
setStandardDefocus(m, defocusU, defocusV, defocusAngle) ==
    LET swap == defocusV > defocusU
        u == IF swap THEN defocusV ELSE defocusU
        v == IF swap THEN defocusU ELSE defocusV
        ang1 == IF swap THEN defocusAngle + 90 ELSE defocusAngle
        ang2 == IF ang1 >= 180 THEN ang1 - 180
                ELSE IF ang1 < 0 THEN ang1 + 180 ELSE ang1
    IN  [m EXCEPT !.defocusU = <<u>>, !.defocusV = <<v>>, !.defocusAngle = <<ang2>>]

\* Lines 68-73: the record looked up, and whether setWrongDefocus is called.
KeyPos(jsonDict) ==
    IF "ctf_frame" \in DOMAIN jsonDict THEN jsonDict.ctf_frame[2]
    ELSE IF "ctf" \in DOMAIN jsonDict THEN jsonDict.ctf[1]
    ELSE Null

\* CTFModel.standardize ends by setting the defocus ratio U / V, a float
\* division that raises when the smaller of the two values is 0.
StandardizeRaises(defocusU, defocusV) ==
    (IF defocusV > defocusU THEN defocusU ELSE defocusV) = 0

\* defocusU with the whole difference added instead of half of it.
DefocusU_WholeDiff(keyPos) == 1000 * keyPos.defocus + 1000 * keyPos.dfdiff

\* Lines 75-81: the values computed from the record, whole Angstroms.
DefocusU(keyPos) == 1000 * keyPos.defocus + 500 * keyPos.dfdiff
DefocusV(keyPos) == 2000 * keyPos.defocus - DefocusU(keyPos)

\* Lines 63-91.  psdExists is pwutils.exists(psdFile).  The result is the
\* model as the call leaves it and the exception that ends the call.
readCTFModel(m, file, psdExists) ==
    LET loaded == loadJson(file)
        jsonDict == loaded.jsonDict
        keyPos == KeyPos(jsonDict)
        m1 == IF "ctf_frame" \in DOMAIN jsonDict \/ "ctf" \in DOMAIN jsonDict
              THEN m ELSE setWrongDefocus(m)
        defocusU == DefocusU(keyPos)
        defocusV == DefocusV(keyPos)
        m3 == setStandardDefocus(m1, defocusU, defocusV, keyPos.dfang)
        m2 == IF Truthy(keyPos)
              THEN IF "ctf_im2d" \in DOMAIN jsonDict /\ psdExists
                   THEN [m3 EXCEPT !.psdFile = <<"1@jsonimg.hdf">>]
                   ELSE m3
              ELSE m1
        ctfPhaseShift == IF Truthy(keyPos) THEN calculatePhaseShift(keyPos.ampcont)
                         ELSE 0
    IN  IF loaded.raised # "none"
        THEN [model |-> m, raised |-> loaded.raised]
        ELSE IF Truthy(keyPos) /\ StandardizeRaises(defocusU, defocusV)
        THEN [model |-> m3, raised |-> "ZeroDivisionError"]
        ELSE [model |-> [m2 EXCEPT !.phaseShift = <<ctfPhaseShift>>],
              raised |-> "none"]

\* Lines 105-110: readCTFModel is called only when the file exists.
jsonToCtfModel(m, file, psdExists) ==
    IF exists(file) THEN readCTFModel(m, file, psdExists)
    ELSE [model |-> m, raised |-> "none"]

CtfInit ==
    /\ fpc = "start"
    /\ fFunc = "none"
    /\ ctfJson \in CtfDisk
    /\ ctfModel = NewCTFModel
    /\ fRaised = "none"

CtfIdle ==
    /\ fpc = "idle"
    /\ fFunc = "none"
    /\ ctfJson = [quality |-> 5]
    /\ ctfModel = NewCTFModel
    /\ fRaised = "none"

\* readCTFModel(ctfModel, filename) called on the file name.
Ctf_ReadCTFModel ==
    /\ fpc = "start"
    /\ \E psdExists \in BOOLEAN :
          LET r == readCTFModel(ctfModel, ctfJson, psdExists)
          IN  /\ ctfModel' = r.model
              /\ fRaised' = r.raised
    /\ fFunc' = "readCTFModel"
    /\ fpc' = "done"
    /\ UNCHANGED ctfJson
    /\ UNCHANGED ctfOthers

\* jsonToCtfModel(ctfJsonFn, ctfModel) called on a newly built CTFModel.
Ctf_JsonToCtfModel ==
    /\ fpc = "start"
    /\ \E psdExists \in BOOLEAN :
          LET r == jsonToCtfModel(ctfModel, ctfJson, psdExists)
          IN  /\ ctfModel' = r.model
              /\ fRaised' = r.raised
    /\ fFunc' = "jsonToCtfModel"
    /\ fpc' = "done"
    /\ UNCHANGED ctfJson
    /\ UNCHANGED ctfOthers

NextCtf ==
    \/ Ctf_ReadCTFModel
    \/ Ctf_JsonToCtfModel

\* ======================================================================
\* 7. getLastParticlesParams, updateSetOfSubTomograms and the
\*    createOutputStep of EmanProtTomoInitialModel
\* ======================================================================
\* A file 'particle_parms_NN.json' of the output directory is known by its
\* iteration number NN; its path is the text that the sort of line 475
\* compares.  A key of the JSON object is a sequence of characters.  A number
\* of the file is held in tenths; values.get(k) is <<>> for None and <<v>>
\* for a value.

\* Bounds of the inputs.
MaxEntries == 2
MaxSubtomos == 2

\* The iteration numbers a directory may hold files of.
IterNumbers == {1, 10, 99, 100}

\* The part of the path after 'particle_parms_', the iteration written with
\* at least two digits, up to the '.' of '.json'; the rest of every path is
\* the same.
ParamsPath(nn) == (IF nn < 10 THEN <<"0">> ELSE <<>>) \o Digits(nn) \o <<".">>

\* The order of two characters of a path: '.' is below every digit.
CharOrd(c) == IF c = "." THEN 0 ELSE DigitValue(c) + 1

RECURSIVE StrLess(_, _)
\* s < t for two strings, as sorted() compares them.
StrLess(s, t) ==
    IF Len(t) = 0 THEN FALSE
    ELSE IF Len(s) = 0 THEN TRUE
    ELSE IF s[1] # t[1] THEN CharOrd(s[1]) < CharOrd(t[1])
    ELSE StrLess(Tail(s), Tail(t))

\* Line 475: sorted(particleParamsPaths)[-1], the greatest path.
LastOfSorted(files) ==
    CHOOSE n \in files :
        \A m \in files \ {n} : StrLess(ParamsPath(m), ParamsPath(n))

\* The keys of the file: three of the form '(<path>, <digits>)', one
\* without the closing parenthesis, one without digits before it.
ParamKeys ==
    {<<"(", "p", ",", " ", "0", ")">>,
     <<"(", "p", ",", " ", "1", ")">>,
     <<"(", "p", ",", " ", "1", "0", ")">>,
     <<"(", "p", ",", " ", "1">>,
     <<"(", "p", ",", " ", "x", ")">>}

\* Two 3x4 alignment matrices, row by row.
AlignMatrices ==
    {<<1, 0, 0, 5, 0, 1, 0, -3, 0, 0, 1, 2>>,
     <<0, -1, 0, 4, 1, 0, 0, 0, 0, 0, 1, -1>>}

\* The values of an entry: complete ones, ones with coverage 0, ones
\* without 'xform.align3d'.
ParamValues ==
    {("coverage" :> 10 @@ "score" :> -20 @@ "xform.align3d" :> [matrix |-> m]) :
        m \in AlignMatrices}
    \cup {("coverage" :> 0 @@ "score" :> -20
           @@ "xform.align3d" :> [matrix |-> <<1, 0, 0, 5, 0, 1, 0, -3, 0, 0, 1, 2>>]),
          ("coverage" :> 10 @@ "score" :> -20)}

\* The JSON objects: entries with different keys, in the order of the file.
ParamFiles ==
    {f \in SeqsUpTo([key : ParamKeys, values : ParamValues], MaxEntries) :
        \A j, k \in DOMAIN f : j # k => f[j].key # f[k].key}

\* The input set of subtomograms: its size and its sampling rate.
ParticleSets == [size : 0..MaxSubtomos, samplingRate : {2}]

IsDigit(c) == c \in Range(DigitChars)

\* re.search(r'(\d+)\)$', key): <<>> when there is no match, otherwise
\* <<group 1>>, the longest run of digits that ends before the final ')'.
re_search(key) ==
    LET n == Len(key)
    IN  IF n < 2 \/ key[n] # ")" \/ ~IsDigit(key[n - 1]) THEN <<>>
        ELSE LET j == CHOOSE j \in 1..(n - 1) :
                          /\ \A m \in j..(n - 1) : IsDigit(key[m])
                          /\ j = 1 \/ ~IsDigit(key[j - 1])
             IN  <<SubSeq(key, j, n - 1)>>

\* dict.get(k): None is <<>>.
get(d, k) == IF k \in DOMAIN d THEN <<d[k]>> ELSE <<>>

\* Lines 487-489: the three values read from an entry.
EntryParams(values) ==
    [coverage |-> get(values, "coverage"),
     score |-> get(values, "score"),
     alignMatrix |-> IF "xform.align3d" \in DOMAIN values
                     THEN get(values["xform.align3d"], "matrix")
                     ELSE <<>>]

\* Line 491: 'coverage and score and alignMatrix'; None, 0 and [] are false.
AllTruthy(p) ==
    /\ p.coverage # <<>> /\ p.coverage[1] # 0
    /\ p.score # <<>> /\ p.score[1] # 0
    /\ p.alignMatrix # <<>> /\ Len(p.alignMatrix[1]) > 0

\* Lines 479-497 for one entry without the test of line 484: the particle
\* index is read from the last digit of the key, 0 when there is none.
AddEntry_NoSkip(out, entry) ==
    LET digits == SelectSeq(entry.key, IsDigit)
        particleIndex == IF digits = <<>> THEN 0 ELSE DigitValue(digits[Len(digits)])
        p == EntryParams(entry.values)
    IN  IF AllTruthy(p)
        THEN [k \in DOMAIN out \cup {particleIndex} |->
                 IF k = particleIndex
                 THEN [coverage |-> p.coverage[1], score |-> p.score[1],
                       alignMatrix |-> p.alignMatrix[1]]
                 ELSE out[k]]
        ELSE out

\* Lines 479-497 for one entry: the dictionary after it.
AddEntry(out, entry) ==
    LET match == re_search(entry.key)
        particleIndex == int(match[1])
        p == EntryParams(entry.values)
    IN  IF match = <<>> THEN out
        ELSE IF AllTruthy(p)
        THEN [k \in DOMAIN out \cup {particleIndex} |->
                 IF k = particleIndex
                 THEN [coverage |-> p.coverage[1], score |-> p.score[1],
                       alignMatrix |-> p.alignMatrix[1]]
                 ELSE out[k]]
        ELSE out

\* Lines 512-517 with the shifts left in the units of the alignment matrix.
TransformMatrix_NoSamplingRate(am, samplingRate) ==
    <<<<am[1], am[2], am[3], am[4]>>,
      <<am[5], am[6], am[7], am[8]>>,
      <<am[9], am[10], am[11], am[12]>>,
      <<0, 0, 0, 1>>>>

\* Lines 512-517: the 4x4 matrix built from the 3x4 alignment matrix.
TransformMatrix(am, samplingRate) ==
    <<<<am[1], am[2], am[3], am[4] * samplingRate>>,
      <<am[5], am[6], am[7], am[8] * samplingRate>>,
      <<am[9], am[10], am[11], am[12] * samplingRate>>,
      <<0, 0, 0, 1>>>>

\* Lines 505-517: the subtomogram updated with the params of its index.
updateSubTomogram(index, particleParams, samplingRate) ==
    [index |-> index,
     coverage |-> particleParams.coverage,
     score |-> particleParams.score,
     transform |-> TransformMatrix(particleParams.alignMatrix, samplingRate)]

EmptyDict == [k \in {} |-> 0]

ParamsInit ==
    /\ ppc = "start"
    /\ paramFiles \in SUBSET IterNumbers
    /\ particlesParams \in ParamFiles
    /\ particles \in ParticleSets
    /\ lastParticleParamsPath = <<>>
    /\ pPos = 0
    /\ output = EmptyDict
    /\ setOfSubTomograms = <<>>
    /\ outputsDefined = FALSE
    /\ pRaised = "none"

ParamsIdle ==
    /\ ppc = "idle"
    /\ paramFiles = {}
    /\ particlesParams = <<>>
    /\ particles = [size |-> 0, samplingRate |-> 2]
    /\ lastParticleParamsPath = <<>>
    /\ pPos = 0
    /\ output = EmptyDict
    /\ setOfSubTomograms = <<>>
    /\ outputsDefined = FALSE
    /\ pRaised = "none"

\* getLastParticlesParams returning an empty dictionary when no file is found.
GLPP_Glob_EmptyDict ==
    /\ ppc = "start"
    /\ IF paramFiles = {}
       THEN /\ ppc' = "copy"
            /\ UNCHANGED lastParticleParamsPath
       ELSE /\ lastParticleParamsPath' = <<LastOfSorted(paramFiles)>>
            /\ ppc' = "items"
    /\ UNCHANGED <<paramFiles, particlesParams, particles, pPos, output,
                   setOfSubTomograms, outputsDefined, pRaised>>
    /\ UNCHANGED paramsOthers

\* createOutputStep up to the call (protocol_tomo_initialmodel.py 187-197)
\* and getLastParticlesParams up to the load (lines 471-477): the exception
\* of line 473 leaves createOutputStep, which has no handler.
GLPP_Glob ==
    /\ ppc = "start"
    /\ IF paramFiles = {}
       THEN /\ pRaised' = "Particle params files not found"
            /\ ppc' = "raised"
            /\ UNCHANGED lastParticleParamsPath
       ELSE /\ lastParticleParamsPath' = <<LastOfSorted(paramFiles)>>
            /\ ppc' = "items"
            /\ UNCHANGED pRaised
    /\ UNCHANGED <<paramFiles, particlesParams, particles, pPos, output,
                   setOfSubTomograms, outputsDefined>>
    /\ UNCHANGED paramsOthers

\* One turn of the loop of lines 479-497.
GLPP_Item ==
    /\ ppc = "items"
    /\ pPos < Len(particlesParams)
    /\ output' = AddEntry(output, particlesParams[pPos + 1])
    /\ pPos' = pPos + 1
    /\ UNCHANGED <<ppc, paramFiles, particlesParams, particles,
                   lastParticleParamsPath, setOfSubTomograms, outputsDefined,
                   pRaised>>
    /\ UNCHANGED paramsOthers

\* Line 499 and createOutputStep up to the call of updateSetOfSubTomograms
\* (protocol_tomo_initialmodel.py 198-201).
GLPP_Return ==
    /\ ppc = "items"
    /\ pPos = Len(particlesParams)
    /\ ppc' = "copy"
    /\ UNCHANGED <<paramFiles, particlesParams, particles,
                   lastParticleParamsPath, pPos, output, setOfSubTomograms,
                   outputsDefined, pRaised>>
    /\ UNCHANGED paramsOthers

\* copyItems (lines 519-521) for the next item of the input set, numbered
\* from 0 by itertools.count(0): updateSubTomogram, whose exception of line
\* 508 leaves createOutputStep.
USS_UpdateItem ==
    /\ ppc = "copy"
    /\ Len(setOfSubTomograms) < particles.size
    /\ LET index == Len(setOfSubTomograms)
       IN  IF index \in DOMAIN output
           THEN /\ setOfSubTomograms' =
                       Append(setOfSubTomograms,
                              updateSubTomogram(index, output[index],
                                                particles.samplingRate))
                /\ UNCHANGED <<ppc, pRaised>>
           ELSE /\ pRaised' = "Could not get params for particle"
                /\ ppc' = "raised"
                /\ UNCHANGED setOfSubTomograms
    /\ UNCHANGED <<paramFiles, particlesParams, particles,
                   lastParticleParamsPath, pPos, output, outputsDefined>>
    /\ UNCHANGED paramsOthers

\* protocol_tomo_initialmodel.py 204-206: the outputs are defined.
COS_DefineOutputs ==
    /\ ppc = "copy"
    /\ Len(setOfSubTomograms) = particles.size
    /\ outputsDefined' = TRUE
    /\ ppc' = "done"
    /\ UNCHANGED <<paramFiles, particlesParams, particles,
                   lastParticleParamsPath, pPos, output, setOfSubTomograms,
                   pRaised>>
    /\ UNCHANGED paramsOthers

NextParams ==
    \/ GLPP_Glob
    \/ GLPP_Item
    \/ GLPP_Return
    \/ USS_UpdateItem
    \/ COS_DefineOutputs

\* ======================================================================
\* 8. The step pipelines of EmanProtRefine2DBispec, EmanProtTomoInitialModel,
\*    EmanProtTomoReconstruction and EmanProtTomoBoxing
\* ======================================================================
\* _insertAllSteps fills the list of steps; the workflow host then runs the
\* steps in the order of the list, one after the other, and stops at the
\* first step that raises.  events records what a step has done: a
\* conversion, a run of an external program, a link, the definition of the
\* outputs.

\* Bound of the sizes of the particle set and of the bispectra set.
MaxSetSize == 2

\* Bound of the size of the input SetOfTomograms of EmanProtTomoBoxing.
MaxTomograms == 2

\* The protocols whose steps are a fixed list.
PipelineProtocols == {"EmanProtRefine2DBispec", "EmanProtTomoInitialModel",
                      "EmanProtTomoReconstruction"}

Protocols == PipelineProtocols \cup {"EmanProtTomoBoxing"}

\* No input tomogram: the form of the protocols that have no such parameter.
NoTomograms == [className |-> "none", files |-> <<>>]

\* The object behind the pointer inputTomograms (pointerClass 'Tomogram,
\* SetOfTomograms', protocol_tomo_boxing.py 58-61): one tomogram, or a set
\* of tomograms with different file names.
TomogramInputs ==
    {[className |-> "Tomogram", files |-> <<fn>>] : fn \in {"t1.mrc", "t2.mrc"}}
    \cup {[className |-> "SetOfTomograms", files |-> f] :
            f \in {g \in SeqsUpTo({"t1.mrc", "t2.mrc", "t3.mrc"}, MaxTomograms) :
                      \A j, k \in DOMAIN g : j # k => g[j] # g[k]}}

\* The form of EmanProtRefine2DBispec and its two input sets.
BispecForms ==
    [useInputBispec : BOOLEAN, skipctf : BOOLEAN, isPhaseFlipped : BOOLEAN,
     partSize : 1..MaxSetSize, bispecSize : 1..MaxSetSize,
     inputTomograms : {NoTomograms}]

NoForm ==
    [useInputBispec |-> FALSE, skipctf |-> FALSE, isPhaseFlipped |-> FALSE,
     partSize |-> 1, bispecSize |-> 1, inputTomograms |-> NoTomograms]

\* The form of EmanProtTomoBoxing.
BoxingForms == {[NoForm EXCEPT !.inputTomograms = t] : t \in TomogramInputs}

ProtInit ==
    /\ protocol \in Protocols
    /\ form \in (CASE protocol = "EmanProtRefine2DBispec" -> BispecForms
                  [] protocol = "EmanProtTomoBoxing" -> BoxingForms
                  [] OTHER -> {NoForm})
    /\ skipctf = form.skipctf
    /\ xpc = "insert"
    /\ steps = <<>>
    /\ stepNo = 0
    /\ events = <<>>
    /\ xRaised = "none"
    /\ stepArgs = <<>>
    /\ stackRead = <<>>

ProtIdle ==
    /\ protocol = "none"
    /\ form = NoForm
    /\ skipctf = FALSE
    /\ xpc = "idle"
    /\ steps = <<>>
    /\ stepNo = 0
    /\ events = <<>>
    /\ xRaised = "none"
    /\ stepArgs = <<>>
    /\ stackRead = <<>>

\* The position after a step has returned: the next step of the list, or
\* the end of the run.
StepReturns ==
    /\ stepNo' = stepNo + 1
    /\ xpc' = IF stepNo = Len(steps) THEN "finished" ELSE "step"

\* The position after a step has raised: the run has failed.
StepRaises(message) ==
    /\ xpc' = "failed"
    /\ xRaised' = message
    /\ UNCHANGED stepNo

\* The step that is to run.
AtStep(class, name) ==
    /\ protocol = class
    /\ xpc = "step"
    /\ steps[stepNo] = name

\* self.runJob(program, ...): the program runs; a failing program raises.
runJob(program) ==
    /\ events' = Append(events, program)
    /\ \/ StepReturns /\ UNCHANGED xRaised
       \/ StepRaises("runJob failed")

\* protocol_refine2d_bispec.py 397-401: the particle list file chosen by
\* _getParticlesStack, from the input set and the value skipctf has when the
\* function is called.
getParticlesStack(isPhaseFlipped, skipctfNow) ==
    IF ~isPhaseFlipped /\ ~skipctfNow THEN "partFlipSet" ELSE "partSet"

\* protocol_refine2d_bispec.py 356-361: the arguments of refineStep; of
\* these the model keeps the file that follows --input.
prepareParams(isPhaseFlipped, skipctfNow) ==
    <<getParticlesStack(isPhaseFlipped, skipctfNow)>>

\* EmanProtRefine2DBispec._insertAllSteps with createOutputStep inserted
\* before refineStep.
Bispec_insertAllSteps_OutputFirst ==
    /\ protocol = "EmanProtRefine2DBispec"
    /\ xpc = "insert"
    /\ steps' = <<"convertImagesStep", "createOutputStep", "refineStep">>
    /\ stepArgs' = <<<<>>, <<>>, prepareParams(form.isPhaseFlipped, skipctf)>>
    /\ stepNo' = 1
    /\ xpc' = "step"
    /\ UNCHANGED <<protocol, form, stackRead, skipctf, events, xRaised>>
    /\ UNCHANGED protOthers

\* protocol_refine2d_bispec.py 256-262.
Bispec_insertAllSteps ==
    /\ protocol = "EmanProtRefine2DBispec"
    /\ xpc = "insert"
    /\ steps' = <<"convertImagesStep", "refineStep", "createOutputStep">>
    /\ stepArgs' = <<<<>>, prepareParams(form.isPhaseFlipped, skipctf), <<>>>>
    /\ stepNo' = 1
    /\ xpc' = "step"
    /\ UNCHANGED <<protocol, form, stackRead, skipctf, events, xRaised>>
    /\ UNCHANGED protOthers

\* convertImagesStep, lines 266-274: the particles are converted, and
\* skipctf is set when input bispectra are used.
Bispec_convertImagesStep_Write ==
    /\ AtStep("EmanProtRefine2DBispec", "convertImagesStep")
    /\ events' = Append(events, "writeSetOfParticles")
    /\ skipctf' = (skipctf \/ form.useInputBispec)
    /\ xpc' = "ctf"
    /\ UNCHANGED <<protocol, form, stepArgs, stackRead, steps, stepNo, xRaised>>
    /\ UNCHANGED protOthers

\* convertImagesStep, lines 276-289: e2ctf.py unless skipctf.
Bispec_convertImagesStep_Ctf ==
    /\ protocol = "EmanProtRefine2DBispec"
    /\ xpc = "ctf"
    /\ IF skipctf
       THEN /\ xpc' = "buildsets"
            /\ UNCHANGED <<events, xRaised>>
       ELSE /\ events' = Append(events, "e2ctf.py")
            /\ \/ xpc' = "buildsets" /\ UNCHANGED xRaised
               \/ StepRaises("runJob failed")
    /\ UNCHANGED <<protocol, form, stepArgs, stackRead, skipctf, steps, stepNo>>
    /\ UNCHANGED protOthers

\* convertImagesStep, lines 291-294: e2buildsets.py.
Bispec_convertImagesStep_BuildSets ==
    /\ protocol = "EmanProtRefine2DBispec"
    /\ xpc = "buildsets"
    /\ events' = Append(events, "e2buildsets.py")
    /\ \/ xpc' = "bispec" /\ UNCHANGED xRaised
       \/ StepRaises("runJob failed")
    /\ UNCHANGED <<protocol, form, stepArgs, stackRead, skipctf, steps, stepNo>>
    /\ UNCHANGED protOthers

\* convertImagesStep, lines 296-311: with input bispectra, the comparison of
\* the two sizes and then the links.
Bispec_convertImagesStep_Bispec ==
    /\ protocol = "EmanProtRefine2DBispec"
    /\ xpc = "bispec"
    /\ IF ~form.useInputBispec
       THEN StepReturns /\ UNCHANGED <<events, xRaised>>
       ELSE IF form.bispecSize # form.partSize
       THEN /\ StepRaises("Input particles and bispectra sets have different size!")
            /\ UNCHANGED events
       ELSE /\ events' = events \o <<"createLink", "createLink">>
            /\ StepReturns /\ UNCHANGED xRaised
    /\ UNCHANGED <<protocol, form, stepArgs, stackRead, skipctf, steps>>
    /\ UNCHANGED protOthers

\* refineStep, lines 313-318.
Bispec_refineStep ==
    /\ AtStep("EmanProtRefine2DBispec", "refineStep")
    /\ runJob("e2refine2d_bispec.py")
    /\ UNCHANGED <<protocol, form, stepArgs, stackRead, skipctf, steps>>
    /\ UNCHANGED protOthers

\* createOutputStep, lines 320-326: _fillClassesFromIter (lines 455-456)
\* calls _execEmanProcess, which has the converter read the file that
\* _getParticlesStack returns now (lines 465-471).
Bispec_createOutputStep ==
    /\ AtStep("EmanProtRefine2DBispec", "createOutputStep")
    /\ stackRead' = <<getParticlesStack(form.isPhaseFlipped, skipctf)>>
    /\ events' = Append(events, "_defineOutputs")
    /\ StepReturns
    /\ UNCHANGED <<protocol, form, stepArgs, skipctf, steps, xRaised>>
    /\ UNCHANGED protOthers

\* protocol_tomo_initialmodel.py 129-132.
InitialModel_insertAllSteps ==
    /\ protocol = "EmanProtTomoInitialModel"
    /\ xpc = "insert"
    /\ steps' = <<"convertImagesStep", "createInitialModelStep", "createOutputStep">>
    /\ stepArgs' = <<<<>>, <<>>, <<>>>>
    /\ stepNo' = 1
    /\ xpc' = "step"
    /\ UNCHANGED <<protocol, form, stackRead, skipctf, events, xRaised>>
    /\ UNCHANGED protOthers

\* protocol_tomo_initialmodel.py 143-148.
InitialModel_convertImagesStep ==
    /\ AtStep("EmanProtTomoInitialModel", "convertImagesStep")
    /\ events' = Append(events, "writeSetOfParticles")
    /\ StepReturns
    /\ UNCHANGED <<protocol, form, stepArgs, stackRead, skipctf, steps, xRaised>>
    /\ UNCHANGED protOthers

\* protocol_tomo_initialmodel.py 150-185.
InitialModel_createInitialModelStep ==
    /\ AtStep("EmanProtTomoInitialModel", "createInitialModelStep")
    /\ runJob("e2spt_sgd.py")
    /\ UNCHANGED <<protocol, form, stepArgs, stackRead, skipctf, steps>>
    /\ UNCHANGED protOthers

\* protocol_tomo_initialmodel.py 187-206: getLastParticlesParams or
\* updateSetOfSubTomograms raises, or the outputs are defined.
InitialModel_createOutputStep ==
    /\ AtStep("EmanProtTomoInitialModel", "createOutputStep")
    /\ \/ /\ \E message \in {"Particle params files not found",
                             "Could not get params for particle"} :
                StepRaises(message)
          /\ UNCHANGED events
       \/ /\ events' = Append(events, "_defineOutputs")
          /\ StepReturns /\ UNCHANGED xRaised
    /\ UNCHANGED <<protocol, form, stepArgs, stackRead, skipctf, steps>>
    /\ UNCHANGED protOthers

\* protocol_tomo_reconstruction.py 168-170.
Reconstruction_insertAllSteps ==
    /\ protocol = "EmanProtTomoReconstruction"
    /\ xpc = "insert"
    /\ steps' = <<"createCommandStep", "createOutputStep">>
    /\ stepArgs' = <<<<>>, <<>>>>
    /\ stepNo' = 1
    /\ xpc' = "step"
    /\ UNCHANGED <<protocol, form, stackRead, skipctf, events, xRaised>>
    /\ UNCHANGED protOthers

\* protocol_tomo_reconstruction.py 173-215.
Reconstruction_createCommandStep ==
    /\ AtStep("EmanProtTomoReconstruction", "createCommandStep")
    /\ runJob("e2tomogram.py")
    /\ UNCHANGED <<protocol, form, stepArgs, stackRead, skipctf, steps>>
    /\ UNCHANGED protOthers

\* protocol_tomo_reconstruction.py 217-243: the assert of
\* _getOutputTomogram (line 252) fails, or the outputs are defined.
Reconstruction_createOutputStep ==
    /\ AtStep("EmanProtTomoReconstruction", "createOutputStep")
    /\ \/ StepRaises("Output tomogram file not found") /\ UNCHANGED events
       \/ /\ events' = Append(events, "_defineOutputs")
          /\ StepReturns /\ UNCHANGED xRaised
    /\ UNCHANGED <<protocol, form, stepArgs, stackRead, skipctf, steps>>
    /\ UNCHANGED protOthers

\* protocol_tomo_boxing.py 78-90: the tomograms of the input, one for a
\* Tomogram and the items in order for a SetOfTomograms.
getTomograms(inputObj) == inputObj.files

\* protocol_tomo_boxing.py 67-76: one interactive step per tomogram, with
\* the tomogram's file name as argument.  With no tomogram there is no step.
Boxing_insertAllSteps ==
    /\ protocol = "EmanProtTomoBoxing"
    /\ xpc = "insert"
    /\ LET tomos == getTomograms(form.inputTomograms)
       IN  /\ steps' = [k \in DOMAIN tomos |-> "launchBoxingGUIStep"]
           /\ stepArgs' = [k \in DOMAIN tomos |-> <<tomos[k]>>]
           /\ xpc' = IF tomos = <<>> THEN "finished" ELSE "step"
    /\ stepNo' = 1
    /\ UNCHANGED <<protocol, form, stackRead, skipctf, events, xRaised>>
    /\ UNCHANGED protOthers

\* launchBoxingGUIStep, lines 148-152: e2spt_boxer.py runs on the tomogram
\* of the step until the user closes it; a failing program raises.
Boxing_launchBoxingGUIStep_RunJob ==
    /\ AtStep("EmanProtTomoBoxing", "launchBoxingGUIStep")
    /\ events' = Append(events, "e2spt_boxer.py")
    /\ \/ xpc' = "askYesNo" /\ UNCHANGED xRaised
       \/ StepRaises("runJob failed")
    /\ UNCHANGED <<protocol, form, stepArgs, stackRead, skipctf, steps, stepNo>>
    /\ UNCHANGED protOthers

\* launchBoxingGUIStep, lines 155-157, with _createOutput called whatever
\* the answer to the dialog is.
Boxing_launchBoxingGUIStep_AskYesNo_AnswerIgnored ==
    /\ protocol = "EmanProtTomoBoxing"
    /\ xpc = "askYesNo"
    /\ \E answer \in BOOLEAN :
          events' = Append(events, IF answer THEN "askYesNo: yes" ELSE "askYesNo: no")
    /\ xpc' = "_createOutput"
    /\ UNCHANGED <<stepNo, xRaised>>
    /\ UNCHANGED <<protocol, form, stepArgs, stackRead, skipctf, steps>>
    /\ UNCHANGED protOthers

\* launchBoxingGUIStep, lines 155-157: the save-output dialog; with yes
\* _createOutput is called, with no the step returns.
Boxing_launchBoxingGUIStep_AskYesNo ==
    /\ protocol = "EmanProtTomoBoxing"
    /\ xpc = "askYesNo"
    /\ \E answer \in BOOLEAN :
          /\ events' = Append(events, IF answer THEN "askYesNo: yes"
                                                ELSE "askYesNo: no")
          /\ IF answer
             THEN xpc' = "_createOutput" /\ UNCHANGED <<stepNo, xRaised>>
             ELSE StepReturns /\ UNCHANGED xRaised
    /\ UNCHANGED <<protocol, form, stepArgs, stackRead, skipctf, steps>>
    /\ UNCHANGED protOthers

\* _createOutput, lines 112-144: line 114 calls self.__getOutputSuffix,
\* a private name that inside this class reads
\* _EmanProtTomoBoxing__getOutputSuffix; the class does not define it (its
\* definition, lines 93-108, is commented out), so the call raises
\* AttributeError before _createSetOf3DCoordinates (line 117) and
\* _defineOutputs (line 143) are reached.
Boxing_createOutput ==
    /\ protocol = "EmanProtTomoBoxing"
    /\ xpc = "_createOutput"
    /\ StepRaises("AttributeError")
    /\ UNCHANGED events
    /\ UNCHANGED <<protocol, form, stepArgs, stackRead, skipctf, steps>>
    /\ UNCHANGED protOthers

NextProt ==
    \/ Bispec_insertAllSteps
    \/ Bispec_convertImagesStep_Write
    \/ Bispec_convertImagesStep_Ctf
    \/ Bispec_convertImagesStep_BuildSets
    \/ Bispec_convertImagesStep_Bispec
    \/ Bispec_refineStep
    \/ Bispec_createOutputStep
    \/ InitialModel_insertAllSteps
    \/ InitialModel_convertImagesStep
    \/ InitialModel_createInitialModelStep
    \/ InitialModel_createOutputStep
    \/ Reconstruction_insertAllSteps
    \/ Reconstruction_createCommandStep
    \/ Reconstruction_createOutputStep
    \/ Boxing_insertAllSteps
    \/ Boxing_launchBoxingGUIStep_RunJob
    \/ Boxing_launchBoxingGUIStep_AskYesNo
    \/ Boxing_createOutput

\* ======================================================================
\* Specifications
\* ======================================================================

\* writeSetOfParticles / convertReferences with the converter process.
Init == ConvInit /\ GeomIdle /\ LstIdle /\ CoordIdle /\ TomoIdle /\ CtfIdle /\ ParamsIdle
    /\ ProtIdle

Spec == Init /\ [][Next]_vars

\* The steps of the caller: a Python function that runs on, statement after
\* statement, whenever it is not blocked in readline().
Caller ==
    \/ WSP_Begin \/ WSP_Write \/ WSP_ReadLine \/ WSP_Kill
    \/ CR_Begin \/ CR_Print \/ CR_Flush \/ CR_ReadLine \/ CR_Kill

\* The same with the caller running on; nothing is assumed of the converter.
SpecFair == Init /\ [][Next]_vars /\ WF_vars(Caller)

\* The transform converter.
InitGeometry == ConvIdle /\ GeomInit /\ LstIdle /\ CoordIdle /\ TomoIdle /\ CtfIdle /\ ParamsIdle
    /\ ProtIdle

SpecGeometry == InitGeometry /\ [][NextGeometry]_vars

\* iterLstFile.
InitLst == ConvIdle /\ GeomIdle /\ LstInit /\ CoordIdle /\ TomoIdle /\ CtfIdle /\ ParamsIdle
    /\ ProtIdle

SpecLst == InitLst /\ [][NextLst]_vars

\* readCoordinates.
InitCoord == ConvIdle /\ GeomIdle /\ LstIdle /\ CoordInit /\ TomoIdle /\ CtfIdle /\ ParamsIdle
    /\ ProtIdle

SpecCoord == InitCoord /\ [][NextCoord]_vars

\* coordinates2json and readSetOfCoordinates3D.
InitTomo == ConvIdle /\ GeomIdle /\ LstIdle /\ CoordIdle /\ TomoInit /\ CtfIdle /\ ParamsIdle
    /\ ProtIdle

SpecTomo == InitTomo /\ [][NextTomo]_vars

\* jsonToCtfModel and readCTFModel.
InitCtf == ConvIdle /\ GeomIdle /\ LstIdle /\ CoordIdle /\ TomoIdle /\ CtfInit /\ ParamsIdle
    /\ ProtIdle

SpecCtf == InitCtf /\ [][NextCtf]_vars

\* createOutputStep of the initial model protocol with
\* getLastParticlesParams and updateSetOfSubTomograms.
InitParams ==
    ConvIdle /\ GeomIdle /\ LstIdle /\ CoordIdle /\ TomoIdle /\ CtfIdle /\ ParamsInit
    /\ ProtIdle

SpecParams == InitParams /\ [][NextParams]_vars

\* The three protocols run by the workflow host.
InitProt ==
    ConvIdle /\ GeomIdle /\ LstIdle /\ CoordIdle /\ TomoIdle /\ CtfIdle /\ ParamsIdle
    /\ ProtInit

SpecProt == InitProt /\ [][NextProt]_vars

\* ======================================================================
\* Properties
\* ======================================================================

\* The first position of the run of equal file names that position k of
\* parts lies in.
RunStart(parts, k) ==
    CHOOSE j \in 1..k :
        /\ j = 1 \/ parts[j]._filename # parts[j - 1]._filename
        /\ \A m \in (j + 1)..k : parts[m]._filename = parts[m - 1]._filename

\* The offset of that run: 0 if its first particle has index 0, 1 otherwise.
RunOffset(parts, k) == IF parts[RunStart(parts, k)]._index = 0 THEN 0 ELSE 1

\* C1: the k-th request carries the file name of the k-th particle and its
\* index minus the offset of its run, the offset being 0 if the first
\* particle of the run (the first particle, or the one whose file name
\* differs from its predecessor's) has index 0 and 1 otherwise; the locals
\* fileName and a hold that run's name and offset.
C1_StackIndexNormalization ==
    /\ \A k \in 1..Len(sent) :
          sent[k] = [_filename |-> partSet[k]._filename,
                     _index |-> partSet[k]._index - RunOffset(partSet, k)]
    /\ pc = "read" =>
          /\ fileName = partSet[i + 1]._filename
          /\ a = RunOffset(partSet, i + 1)

\* C1 witness: writeSetOfParticles has finished three particles, a run of two
\* starting with index 1 (emitted decreased by 1) and then a run of another
\* file starting with index 0 (emitted unchanged).
C1_Witness ==
    /\ func = "writeSetOfParticles" /\ pc = "done" /\ Len(sent) = 3
    /\ partSet[1]._index = 1 /\ partSet[2]._index = 2 /\ partSet[3]._index = 0
    /\ partSet[2]._filename = partSet[1]._filename
    /\ partSet[3]._filename # partSet[2]._filename
    /\ sent[1]._index = 0 /\ sent[2]._index = 1 /\ sent[3]._index = 0

\* Position k of parts has index 0 inside a run whose offset is 1: its
\* apparent offset differs from the one of its file.
OffsetChangesMidFile(parts, k) ==
    /\ RunStart(parts, k) # k
    /\ RunOffset(parts, k) = 1
    /\ parts[k]._index = 0

\* C2: an entry whose apparent offset changes in the middle of a file is
\* never emitted; the conversion stops with an error at that entry.
C2_MidFileOffsetChangeFails ==
    \A k \in 1..Len(partSet) :
        OffsetChangesMidFile(partSet, k) =>
            /\ Len(sent) < k
            /\ Len(stdinBuf) = 0 \/ i + 1 < k

\* C3: at most one request is unacknowledged at any time, a request is only
\* written when every earlier one has been acknowledged, and when the
\* converter has been killed the requests written, the acknowledgements read
\* and the particles are equal in number.
C3_OneRequestAtATime ==
    LET written == Len(sent) + Len(stdinBuf)
    IN  /\ acksRead <= Len(sent)
        /\ written - acksRead \in {0, 1}
        /\ Len(stdinPipe) + stdoutPipe <= 1
        /\ pc = "loop" => written = acksRead /\ acksRead = i
        /\ pc \in {"flush", "read"} => written = i + 1 /\ acksRead = i
        /\ proc = "killed" =>
              /\ pc = "done"
              /\ Len(sent) = Len(partSet)
              /\ acksRead = Len(partSet)

\* C3 witness: a conversion of three particles has ended with the kill.
C3_Witness ==
    /\ pc = "done" /\ proc = "killed"
    /\ Len(partSet) = 3 /\ Len(sent) = 3 /\ acksRead = 3

\* The locals fileName and a of writeSetOfParticles after the first k
\* particles of parts (lines 243-280).
RECURSIVE WSP_OffsetAfter(_, _)
WSP_OffsetAfter(parts, k) ==
    IF k = 0 THEN [fileName |-> EmptyName, a |-> 0]
    ELSE LET before == WSP_OffsetAfter(parts, k - 1)
         IN  WSP_Offset(before.fileName, before.a, parts[k])

\* The same for convertReferences (lines 413-428).
RECURSIVE CR_OffsetAfter(_, _)
CR_OffsetAfter(parts, k) ==
    IF k = 0 THEN [fileName |-> EmptyName, a |-> 0]
    ELSE LET before == CR_OffsetAfter(parts, k - 1)
         IN  CR_Offset(before.fileName, before.a, parts[k])

\* The _index values the loop of writeSetOfParticles (lines 247-284) sends
\* for parts.
WSP_LoopIndices(parts) ==
    [k \in 1..Len(parts) |-> Request(parts[k], WSP_OffsetAfter(parts, k).a)._index]

\* The _index values convertReferences sends for parts.
CR_Indices(parts) ==
    [k \in 1..Len(parts) |-> Request(parts[k], CR_OffsetAfter(parts, k).a)._index]

\* The first item of parts is an hdf file: writeSetOfParticles links.
FirstIsHdf(parts) == parts # <<>> /\ getExt(parts[1]._filename) = "hdf"

\* The _index values a whole call of writeSetOfParticles sends for parts:
\* none when it links (lines 230-236).
WSP_Indices(parts) == IF FirstIsHdf(parts) THEN <<>> ELSE WSP_LoopIndices(parts)

\* The _index values sent so far.
SentIndices == [k \in 1..Len(sent) |-> sent[k]._index]

\* C23 as stated: when a call has returned, the _index values it has sent
\* are the ones the other function sends for the same particles in the
\* same order.
C23_SameIndicesSent ==
    pc = "done" =>
        /\ func = "writeSetOfParticles" => SentIndices = CR_Indices(partSet)
        /\ func = "convertReferences" => SentIndices = WSP_Indices(partSet)

\* C23: the _index values sent so far by either function are the first ones
\* of those the loop of the other sends for the same particles in the same
\* order; when the first file is not an hdf file, a call that has returned
\* has sent all of them.
C23_SameIndicesSentWhenConverting ==
    LET other == IF func = "writeSetOfParticles"
                 THEN CR_Indices(partSet) ELSE WSP_LoopIndices(partSet)
    IN  /\ Len(sent) <= Len(partSet)
        /\ SentIndices = SubSeq(other, 1, Len(sent))
        /\ (pc = "done" /\ ~FirstIsHdf(partSet)) => Len(sent) = Len(partSet)

\* C23 witness: convertReferences has returned after three references of
\* three files, with first indices 1, 0 and 2, sent as 0, 0 and 1.
C23_Witness ==
    /\ func = "convertReferences" /\ pc = "done" /\ Len(sent) = 3
    /\ \A j, k \in 1..3 : j # k => partSet[j]._filename # partSet[k]._filename
    /\ getExt(partSet[1]._filename) # "hdf"
    /\ partSet[1]._index = 1 /\ partSet[2]._index = 0 /\ partSet[3]._index = 2
    /\ SentIndices = <<0, 0, 1>>
    /\ WSP_Indices(partSet) = <<0, 0, 1>>

\* C24: two particles of the same file are sent with the same offset, in
\* whatever order the particles come.
C24_SameFileSameOffset ==
    \A j, k \in 1..Len(sent) :
        partSet[j]._filename = partSet[k]._filename =>
            partSet[j]._index - sent[j]._index = partSet[k]._index - sent[k]._index

\* The first particle of the run of position k has the smallest index of
\* the run up to k.
RunStartsLowest(parts, k) == parts[RunStart(parts, k)]._index <= parts[k]._index

\* C25: when the first particle of every run of particles of one file has
\* the smallest index of the run, every _index sent is 0 or more.
C25_NonNegativeIndices ==
    \A k \in 1..Len(sent) :
        (\A j \in 1..k : RunStartsLowest(partSet, j)) => sent[k]._index >= 0

\* C25 witness: writeSetOfParticles has returned after three particles of
\* one file with indices 1, 1 and 2, sent as 0, 0 and 1.
C25_Witness ==
    /\ func = "writeSetOfParticles" /\ pc = "done" /\ Len(sent) = 3
    /\ partSet[2]._filename = partSet[1]._filename
    /\ partSet[3]._filename = partSet[1]._filename
    /\ partSet[1]._index = 1 /\ partSet[2]._index = 1 /\ partSet[3]._index = 2
    /\ \A k \in 1..3 : RunStartsLowest(partSet, k)
    /\ SentIndices = <<0, 0, 1>>

\* writeSetOfParticles is the function called.
WSP_Called == func = "writeSetOfParticles"

\* C26: in writeSetOfParticles the converter exists only when the first
\* item is not an hdf file; with an hdf file nothing but links is made and
\* no request is written.  The process goes from not created to alive, before
\* any request, and from alive to killed, after the acknowledgement of the
\* last request has been read, and makes no other change; a request is only
\* written while it is alive; and if the converter answers, a call whose
\* first item is not an hdf file ends with the kill.
C26_ConverterLifecycle ==
    /\ [](WSP_Called /\ proc # "none" => partSet # <<>> /\ ~FirstIsHdf(partSet))
    /\ [](WSP_Called /\ FirstIsHdf(partSet) =>
             /\ proc = "none"
             /\ sent = <<>> /\ stdinBuf = <<>> /\ stdinPipe = <<>>
             /\ pc = "done" => links = {hdfLink(p._filename) : p \in Range(partSet)})
    /\ [](WSP_Called /\ links # {} => FirstIsHdf(partSet))
    /\ [][WSP_Called /\ proc' # proc =>
             \/ /\ proc = "none" /\ proc' = "alive"
                /\ sent = <<>> /\ sent' = <<>>
             \/ /\ proc = "alive" /\ proc' = "killed"
                /\ Len(sent) = Len(partSet) /\ acksRead = Len(partSet)
                /\ stdinPipe = <<>> /\ sent' = sent]_vars
    /\ [][WSP_Called /\ sent' # sent =>
             /\ proc = "alive" /\ proc' = "alive"
             /\ Len(sent') = Len(sent) + 1]_vars
    /\ WF_vars(Converter_Ack) =>
          ((WSP_Called /\ partSet # <<>> /\ ~FirstIsHdf(partSet)) ~> proc = "killed")

\* C26 witness: writeSetOfParticles has killed the converter after the
\* acknowledgement of the only request of a set of one particle.
C26_Witness ==
    /\ WSP_Called /\ pc = "done" /\ proc = "killed"
    /\ Len(partSet) = 1 /\ ~FirstIsHdf(partSet)
    /\ Len(sent) = 1 /\ acksRead = 1 /\ stdinPipe = <<>> /\ links = {}

\* C4: building the matrix from the geometry taken from a rigid transform,
\* with the same inverse flag, gives the transform back.
C4_RoundTrip == gpc = "done" => gResult = gMatrix

\* C4 witness: a round trip with the inverse flag set, of a transform that
\* has a translation and a rotation with three non-zero Euler angles.
C4_Witness ==
    /\ gpc = "done" /\ gInverse
    /\ gShifts # NoVector
    /\ \A n \in 1..3 : gAngles[n] # 0

\* A record of the list file whose line holds a '#'.
RecordHasHash(r) ==
    r.kind = "comment" \/ "#" \in Range(r.path) \/ "#" \in Range(r.tail)

NoHash(r) == ~RecordHasHash(r)

\* C5: what has been yielded after lstPos lines is, in file order, one pair
\* (N + 1, path) for every line '<N> <path>' without '#' among them, and
\* nothing for a line with a '#' anywhere; the scan ends after the last line.
C5_LstEntries ==
    LET d == SelectSeq(SubSeq(lstRecords, 1, lstPos), NoHash)
    IN  /\ Len(lstYielded) = Len(d)
        /\ \A k \in 1..Len(d) :
              lstYielded[k] = [index |-> d[k].n + 1, filename |-> d[k].path]
        /\ lpc = "done" => lstPos = Len(lstRecords)

\* C5 witness: a file of three lines has been scanned to its end; one data
\* line had a '#' after its path and was passed over, two were yielded, one
\* of them a line with a third field and a two-digit index.
C5_Witness ==
    /\ lpc = "done" /\ Len(lstRecords) = 3 /\ Len(lstYielded) = 2
    /\ \E k \in 1..3 : lstRecords[k].kind = "data" /\ RecordHasHash(lstRecords[k])
    /\ \E k \in 1..2 : lstYielded[k].index = 10 /\ lstYielded[k].filename = <<"q", ".", "h">>

\* C6: when the file exists and has boxes, readCoordinates ends with one
\* coordinate per box, in order, of the given micrograph, x the first element
\* and y the second, or the micrograph's Y dimension minus the second when
\* invertY is set; box [10, 20] with height 100 and invertY gives (10, 80).
C6_OneCoordinatePerBox ==
    /\ cpc = "loop" => Len(coordsSet) = cPos
    /\ (cpc = "done" /\ cFileExists /\ "boxes" \in DOMAIN cJson) =>
          /\ Len(coordsSet) = Len(cJson.boxes)
          /\ \A k \in 1..Len(cJson.boxes) :
                /\ coordsSet[k].x = cJson.boxes[k][1]
                /\ coordsSet[k].y = IF cInvertY THEN cMic.yDim - cJson.boxes[k][2]
                                    ELSE cJson.boxes[k][2]
                /\ coordsSet[k].mic = cMic.name
                /\ (cInvertY /\ cMic.yDim = 100 /\ SubSeq(cJson.boxes[k], 1, 2) = <<10, 20>>)
                      => (coordsSet[k].x = 10 /\ coordsSet[k].y = 80)

\* C6 witness: three boxes read with invertY on a micrograph of height 100,
\* the first being [10, 20], another having more than two elements.
C6_Witness ==
    /\ cpc = "done" /\ cInvertY /\ cMic.yDim = 100 /\ Len(coordsSet) = 3
    /\ cJson.boxes[1] = <<10, 20>>
    /\ coordsSet[1] = [x |-> 10, y |-> 80, mic |-> cMic.name]
    /\ \E k \in 2..3 : Len(cJson.boxes[k]) > 2

\* C7: after readSetOfCoordinates3D the set of every class holds as many
\* coordinates as there are boxes of that class, each at the box's first
\* three elements and of the input tomogram.
C7_Boxes3DByClass ==
    (tpc \in {"read", "readback"} /\ "boxes_3d" \in DOMAIN jsonFile) =>
        /\ tRaised = "none"
        /\ \A c \in ClassIds :
              LET mine == SelectSeq(jsonFile.boxes_3d, LAMBDA b : b[6] = c)
              IN  /\ Len(coord3DSets[c]) = Len(mine)
                  /\ \A k \in 1..Len(mine) :
                        /\ coord3DSets[c][k].x = mine[k][1]
                        /\ coord3DSets[c][k].y = mine[k][2]
                        /\ coord3DSets[c][k].z = mine[k][3]
                        /\ coord3DSets[c][k].volume = "tomo"

\* C8: reading back what coordinates2json wrote appends the coordinates, with
\* their positions and in their order, to the set of class 0 and nothing to
\* any other set.
C8_ReadBackCoordinates ==
    tpc = "readback" =>
        /\ Len(coord3DSets[0]) = Len(inputCoor)
        /\ \A k \in 1..Len(inputCoor) :
              /\ coord3DSets[0][k].x = inputCoor[k].x
              /\ coord3DSets[0][k].y = inputCoor[k].y
              /\ coord3DSets[0][k].z = inputCoor[k].z
        /\ \A c \in ClassIds \ {0} : coord3DSets[c] = <<>>

\* C9: the object coordinates2json writes has the two keys boxes_3d and
\* class_list; boxes_3d holds, for each input coordinate in order, the record
\* [x, y, z, "manual", 0.0, 0]; class_list holds the single class "0" with
\* the box size of the input set.
C9_JsonWritten ==
    tpc \in {"written", "readback"} =>
        /\ DOMAIN jsonFile = {"boxes_3d", "class_list"}
        /\ Len(jsonFile.boxes_3d) = Len(inputCoor)
        /\ \A k \in 1..Len(inputCoor) :
              jsonFile.boxes_3d[k] =
                  <<inputCoor[k].x, inputCoor[k].y, inputCoor[k].z, "manual", "0.0", 0>>
        /\ DOMAIN jsonFile.class_list = {"0"}
        /\ jsonFile.class_list["0"].boxsize = boxSize

\* C9 witness: two different coordinates, the first with x # y, written with
\* box size 64.
C9_Witness ==
    /\ tpc = "written" /\ Len(inputCoor) = 2 /\ boxSize = 64
    /\ inputCoor[1] # inputCoor[2]
    /\ inputCoor[1].x # inputCoor[1].y
    /\ Len(jsonFile.boxes_3d) = 2

\* C10: when readCTFModel ends without a record to use (no 'ctf_frame' and
\* no 'ctf', or an empty record), the defocus triple of the model is
\* (-999, -1, -999) and its phase shift 0.
C10_NoRecordWrongDefocus ==
    (fpc = "done" /\ ctfJson \in CtfFiles /\ ~Truthy(KeyPos(ctfJson))) =>
        /\ ctfModel.defocusU = <<-999>>
        /\ ctfModel.defocusV = <<-1>>
        /\ ctfModel.defocusAngle = <<-999>>
        /\ ctfModel.phaseShift = <<0>>

\* C11: when the metadata file is missing or is not JSON, jsonToCtfModel and
\* readCTFModel end without an exception and the defocus triple of the model
\* is (-999, -1, -999).
C11_MissingOrMalformedFile ==
    (fpc = "done" /\ ctfJson \in {MissingFile, MalformedFile}) =>
        /\ fRaised = "none"
        /\ ctfModel.defocusU = <<-999>>
        /\ ctfModel.defocusV = <<-1>>
        /\ ctfModel.defocusAngle = <<-999>>

\* The record readCTFModel has used, when the call has gone past line 75
\* with one.
RecordUsed == fpc = "done" /\ ctfJson \in CtfFiles /\ Truthy(KeyPos(ctfJson))

C17_PhaseShiftBranches ==
    (RecordUsed /\ fRaised = "none") =>
        LET ampcont == KeyPos(ctfJson).ampcont
            shift == ctfModel.phaseShift
            branch == PhaseShiftBranch(ampcont)
        IN  /\ ampcont = -100 => (branch = "third" /\ shift = <<-90>>)
            /\ ampcont = 0 => (branch = "first" /\ shift = <<0>>)
            /\ ampcont = 100 => (branch = "first" /\ shift = <<90>>)
            /\ ampcont = 150 => (branch = "second" /\ shift = <<150>>)
            /\ ampcont = -150 => (branch = "third" /\ shift = <<-150>>)
            /\ ampcont \in {-100, 0, 100, 150, -150}

\* C17 witness: a record with ampcont -100, the boundary the first branch
\* leaves out, has been read and the phase shift is -90 degrees.
C17_Witness ==
    /\ RecordUsed /\ fRaised = "none"
    /\ KeyPos(ctfJson).ampcont = -100
    /\ ctfModel.phaseShift = <<-90>>

\* C12: with no particle_parms file in the directory,
\* getLastParticlesParams raises 'Particle params files not found': no file
\* is chosen, no dictionary is built, nothing is tried again, and
\* createOutputStep ends there, without an output set item and without
\* defining any output.
C12_NoParamsFilesFails ==
    paramFiles = {} =>
        /\ ppc \in {"start", "raised"}
        /\ ppc = "raised" => pRaised = "Particle params files not found"
        /\ lastParticleParamsPath = <<>>
        /\ pPos = 0 /\ output = EmptyDict
        /\ setOfSubTomograms = <<>>
        /\ ~outputsDefined

\* C12 witness: createOutputStep has failed on an empty directory, for an
\* input set of two subtomograms.
C12_Witness ==
    /\ paramFiles = {} /\ ppc = "raised"
    /\ pRaised = "Particle params files not found"
    /\ particles.size = 2 /\ ~outputsDefined

\* The keys that end in '<digits>)' and the particle index they carry.
KeyIndex(key) ==
    CASE key = <<"(", "p", ",", " ", "0", ")">> -> <<0>>
      [] key = <<"(", "p", ",", " ", "1", ")">> -> <<1>>
      [] key = <<"(", "p", ",", " ", "1", "0", ")">> -> <<10>>
      [] OTHER -> <<>>

\* An entry whose three values are present and not 0 or empty.
CompleteValues(v) ==
    /\ "coverage" \in DOMAIN v /\ v["coverage"] # 0
    /\ "score" \in DOMAIN v /\ v["score"] # 0
    /\ "xform.align3d" \in DOMAIN v
    /\ "matrix" \in DOMAIN v["xform.align3d"]

\* C14: the loop over the entries never fails; an entry whose key does not
\* end in '<digits>)' adds nothing to the dictionary, and every entry gone
\* through whose key does and whose values are complete has its index in
\* the dictionary, with the values of the last such entry.
C14_MalformedKeysSkipped ==
    LET Counts(k) == /\ KeyIndex(particlesParams[k].key) # <<>>
                     /\ CompleteValues(particlesParams[k].values)
        IndexOf(k) == KeyIndex(particlesParams[k].key)[1]
    IN  /\ ppc = "items" => pRaised = "none"
        /\ pRaised # "Particle params files not found" =>
              /\ \A k \in 1..pPos : Counts(k) => IndexOf(k) \in DOMAIN output
              /\ \A idx \in DOMAIN output :
                    \E k \in 1..pPos :
                        /\ Counts(k) /\ IndexOf(k) = idx
                        /\ \A m \in (k + 1)..pPos : ~(Counts(m) /\ IndexOf(m) = idx)
                        /\ output[idx].coverage = particlesParams[k].values["coverage"]
                        /\ output[idx].score = particlesParams[k].values["score"]
                        /\ output[idx].alignMatrix =
                               particlesParams[k].values["xform.align3d"].matrix

\* C14 witness: a file of two entries has been gone through, the first with
\* a key that has no closing parenthesis, the second '(p, 10)' with complete
\* values: the dictionary holds index 10 alone.
C14_Witness ==
    /\ ppc = "copy" /\ pPos = 2
    /\ particlesParams[1].key = <<"(", "p", ",", " ", "1">>
    /\ CompleteValues(particlesParams[1].values)
    /\ particlesParams[2].key = <<"(", "p", ",", " ", "1", "0", ")">>
    /\ DOMAIN output = {10}

\* C21: the item at 0-based position k of the output set carries the
\* coverage and score stored under key k and a transform whose rotation
\* block is the 3x3 part of the align matrix, whose translation column is
\* the matrix's 4th column times the sampling rate and whose last row is
\* [0,0,0,1]; the call raises 'Could not get params for particle' exactly
\* at the first position without an entry, and no item is made for it.
C21_ParamsByPosition ==
    /\ \A n \in DOMAIN setOfSubTomograms :
          LET item == setOfSubTomograms[n]
              k == n - 1
          IN  /\ item.index = k
              /\ k \in DOMAIN output
              /\ item.coverage = output[k].coverage
              /\ item.score = output[k].score
              /\ item.transform[4] = <<0, 0, 0, 1>>
              /\ \A r \in 1..3 :
                    /\ \A c \in 1..3 :
                          item.transform[r][c] =
                              output[k].alignMatrix[4 * (r - 1) + c]
                    /\ item.transform[r][4] =
                          output[k].alignMatrix[4 * r] * particles.samplingRate
    /\ pRaised = "Could not get params for particle" =>
          /\ Len(setOfSubTomograms) < particles.size
          /\ Len(setOfSubTomograms) \notin DOMAIN output
          /\ ~outputsDefined
    /\ (ppc = "copy" /\ Len(setOfSubTomograms) < particles.size
          /\ Len(setOfSubTomograms) \notin DOMAIN output) =>
          ~ENABLED COS_DefineOutputs

\* C21 witness: two subtomograms have been copied with the params of keys 0
\* and 1, the first with the shifts (5, -3, 2) doubled by the sampling rate.
C21_Witness ==
    /\ ppc = "done" /\ Len(setOfSubTomograms) = 2
    /\ DOMAIN output = {0, 1}
    /\ output[0].alignMatrix # output[1].alignMatrix
    /\ setOfSubTomograms[1].transform =
          <<<<1, 0, 0, 10>>, <<0, 1, 0, -6>>, <<0, 0, 1, 4>>, <<0, 0, 0, 1>>>>

\* C28: every entry gone through whose key ends in '<digits>)' and whose
\* values hold coverage, score and xform.align3d.matrix is in the
\* dictionary under its index, whatever the values are.
C28_PresentFieldsKept ==
    \A k \in 1..pPos :
        LET v == particlesParams[k].values
        IN  (/\ KeyIndex(particlesParams[k].key) # <<>>
             /\ "coverage" \in DOMAIN v /\ "score" \in DOMAIN v
             /\ "xform.align3d" \in DOMAIN v
             /\ "matrix" \in DOMAIN v["xform.align3d"])
            => KeyIndex(particlesParams[k].key)[1] \in DOMAIN output

\* C15: the file that is loaded is the one with the highest iteration
\* number among those present.
C15_HighestIterationLoaded ==
    lastParticleParamsPath # <<>> =>
        /\ lastParticleParamsPath[1] \in paramFiles
        /\ \A nn \in paramFiles : nn <= lastParticleParamsPath[1]

\* C13: when convertImagesStep of EmanProtRefine2DBispec ends with 'Input
\* particles and bispectra sets have different size!', nothing has been done
\* before: no particle conversion, no run of e2ctf.py or e2buildsets.py, no
\* link.
C13_NoPartialProcessing ==
    xRaised = "Input particles and bispectra sets have different size!" =>
        events = <<>>

\* C27: when createOutputStep of EmanProtRefine2DBispec has had the
\* converter read a particle list file, it is the file that refineStep was
\* given as --input when the steps were inserted.
C27_SameParticlesStack ==
    (protocol = "EmanProtRefine2DBispec" /\ stackRead # <<>>) =>
        \E k \in DOMAIN steps :
            steps[k] = "refineStep" /\ stepArgs[k] = stackRead

\* The events of one step of EmanProtTomoBoxing that create the output.
BoxingOutputEvents == {"_createSetOf3DCoordinates", "_defineOutputs"}

\* C22: EmanProtTomoBoxing has one launchBoxingGUIStep per input tomogram,
\* in order, with the tomogram's file name; the dialog comes after
\* e2spt_boxer.py has returned (a failing program ends the step without a
\* dialog); a coordinate set is created or an output defined only after the
\* program and a yes of the same step; and after a no the step returns
\* without having created or defined anything.
C22_OutputOnlyAfterYes ==
    protocol = "EmanProtTomoBoxing" =>
    /\ xpc # "insert" =>
          /\ Len(steps) = Len(form.inputTomograms.files)
          /\ Len(stepArgs) = Len(steps)
          /\ \A k \in DOMAIN steps :
                /\ steps[k] = "launchBoxingGUIStep"
                /\ stepArgs[k] = <<form.inputTomograms.files[k]>>
    /\ \A k \in DOMAIN events :
          /\ events[k] \in {"askYesNo: yes", "askYesNo: no"} =>
                k > 1 /\ events[k - 1] = "e2spt_boxer.py"
          /\ events[k] \in BoxingOutputEvents =>
                \E j \in 2..(k - 1) :
                    /\ events[j] = "askYesNo: yes"
                    /\ events[j - 1] = "e2spt_boxer.py"
                    /\ \A m \in (j + 1)..k : events[m] \in BoxingOutputEvents
          /\ events[k] = "askYesNo: no" =>
                IF k = Len(events)
                THEN xpc \in {"step", "finished"} /\ xRaised = "none"
                ELSE events[k + 1] = "e2spt_boxer.py"
    /\ xRaised = "runJob failed" => events[Len(events)] = "e2spt_boxer.py"
    /\ xpc = "askYesNo" => events[Len(events)] = "e2spt_boxer.py"
    /\ xpc = "_createOutput" => events[Len(events)] = "askYesNo: yes"

\* C22 witness: with a set of two tomograms, the user has answered no in
\* the step of the first tomogram and the program of the second step has
\* returned; the dialog of the second step is open and nothing has been
\* created.
C22_Witness ==
    /\ protocol = "EmanProtTomoBoxing"
    /\ form.inputTomograms.className = "SetOfTomograms"
    /\ Len(steps) = 2 /\ stepArgs[1] # stepArgs[2]
    /\ stepNo = 2 /\ xpc = "askYesNo"
    /\ events = <<"e2spt_boxer.py", "askYesNo: no", "e2spt_boxer.py">>

\* The external program of each protocol's pipeline.
MainProgram ==
    CASE protocol = "EmanProtRefine2DBispec" -> "e2refine2d_bispec.py"
      [] protocol = "EmanProtTomoInitialModel" -> "e2spt_sgd.py"
      [] protocol = "EmanProtTomoReconstruction" -> "e2tomogram.py"
      [] OTHER -> "none"

MatMul(A, B) ==
    [r \in 1..4 |-> [c \in 1..4 |->
        A[r][1] * B[1][c] + A[r][2] * B[2][c] + A[r][3] * B[3][c] + A[r][4] * B[4][c]]]

\* The fourth column of a 4x4 matrix, without its last element.
Column4(M) == <<M[1][4], M[2][4], M[3][4]>>

\* The matrix with the rotation block that the angles give (negated, in
\* radians, 'szyz') and the fourth column t.
FromAngles(angles, t) ==
    LET E == euler_matrix(0 - (angles[1] \div 90), 0 - (angles[2] \div 90),
                          0 - (angles[3] \div 90))
    IN  [r \in 1..4 |-> [c \in 1..4 |->
            IF c = 4 /\ r < 4 THEN t[r] ELSE E[r][c]]]

\* C19: without the inverse flag geometryFromMatrix returns the translation
\* column of its input as shifts and the negated Euler angles of the input;
\* with it, the negated translation column and the negated Euler angles of
\* the inverse of the input.  Without the flag matrixFromGeometry returns
\* the matrix made of the rotation of the angles and the shifts as
\* translation column; with it, the inverse of the matrix made of that
\* rotation and the negated shifts.
C19_InverseFlag ==
    /\ gpc \in {"geometry", "done"} =>
          LET N == inv(gMatrix)
          IN  IF gInverse
              THEN /\ MatMul(gMatrix, N) = Identity4 /\ MatMul(N, gMatrix) = Identity4
                   /\ gShifts = [n \in 1..3 |-> 0 - Column4(N)[n]]
                   /\ gAngles = [n \in 1..3 |-> 0 - 90 * euler_from_matrix(N)[n]]
              ELSE /\ gShifts = Column4(gMatrix)
                   /\ gAngles = [n \in 1..3 |-> 0 - 90 * euler_from_matrix(gMatrix)[n]]
    /\ gpc = "done" =>
          IF gInverse
          THEN LET X == FromAngles(gAngles, [n \in 1..3 |-> 0 - gShifts[n]])
               IN  MatMul(gResult, X) = Identity4 /\ MatMul(X, gResult) = Identity4
          ELSE gResult = FromAngles(gAngles, gShifts)

\* C19 witness: with the inverse flag set, a transform whose rotation moves
\* its translation has gone through both functions: the shifts returned are
\* neither the translation column nor its negation.
C19_Witness ==
    /\ gpc = "done" /\ gInverse
    /\ gShifts # Column4(gMatrix)
    /\ gShifts # [n \in 1..3 |-> 0 - Column4(gMatrix)[n]]
    /\ Column4(gResult) # gShifts

\* The call has returned: with an exception for an empty set, after the links
\* of the hdf branch, or after the kill that follows one request and one
\* acknowledgement per particle.
Finished ==
    \/ pc = "raised"
    \/ pc = "done" /\ proc = "none"
    \/ /\ pc = "done" /\ proc = "killed"
       /\ Len(sent) = Len(partSet) /\ acksRead = Len(partSet)

\* The caller waits in readline() and no line is in the pipe.
Blocked == pc = "read" /\ stdoutPipe = 0

====
